---------------------------- MODULE Spec2Model ----------------------------
(***************************************************************************)
(* The transaction coordinator of src/unnamed/part_000 (txn.cc):           *)
(* txn_begin, txn_add_redo, txn_replace, txn_commit, txn_finish,           *)
(* txn_rollback and port_send_tuple, run against an engine index, a        *)
(* tuple reference count table, the fiber's region allocator and the       *)
(* write ahead log.                                                        *)
(*                                                                         *)
(* A fiber runs one request at a time: begin, then add_redo and one        *)
(* replace (the design is single-row-per-transaction, spec 1), then        *)
(* commit, which suspends in wal_write, or rollback.  Spec is the state    *)
(* machine of one fiber; SpecTwo runs two fibers that interleave at        *)
(* wal_write, SpecMulti lets a transaction call replace more than once.    *)
(*                                                                         *)
(* The v11 log reader of src/src/box/lua/xlog_v11.c: xlog_v11_open_stream  *)
(* with xlog_v11_read_meta, the cursor (xlog_cursor_v11_open, _next with   *)
(* row_reader_v11, _close) and xlog_v11_close run over the bytes of one    *)
(* file in SpecXlog; xdir_v11_create, xdir_v11_scan and xdir_v11_destroy   *)
(* run over the entries of one directory in SpecXdir.  SpecLoop follows    *)
(* xlog_cursor_v11_next label by label.                                    *)
(***************************************************************************)
EXTENDS Integers, Sequences, FiniteSets, TLC

VARIABLES
    index,      \* engine content: space -> key -> tuple or NULL
    refs,       \* tuple -> reference count (tuple_ref)
    in_txn,     \* fiber -> the struct txn in the fiber's slot, or NIL
    gc,         \* fiber -> objects allocated in fiber()->gc since the last fiber_gc()
    wal_mode,   \* recovery_state->wal_mode
    log,        \* rows appended to the write ahead log
    pc,         \* fiber -> position of the fiber's request
    trace,      \* fiber -> what the calls of the current transaction did, in order
    snap,       \* fiber -> index, refs and log as they were at the last txn_begin
    stmt,       \* fiber -> the replace() of the current transaction, or NIL
    hist,       \* fiber -> the last two transactions, if they committed one
                \* right after the other
    ntxn,       \* number of txn_begin calls so far
    aborted,    \* the process died on a failed assert()
    file,       \* the log file on disk: its bytes, and how it was written
    xlog,       \* the struct xlog of the open file (position of l->f, rows), or NIL
    cursor,     \* the struct xlog_cursor open on xlog, or NIL
    xout,       \* what the calls on the file returned and said, in order
    dir,        \* the struct xdir_v11, or NIL before xdir_v11_create
    dents,      \* the names readdir() returns for the directory
    scans       \* what the calls of xdir_v11_scan returned, in order

txn_vars == <<index, refs, in_txn, gc, wal_mode, log, pc, trace, snap, stmt,
              hist, ntxn, aborted>>
xlog_vars == <<file, xlog, cursor, xout>>
xdir_vars == <<dir, dents, scans>>

vars == <<index, refs, in_txn, gc, wal_mode, log, pc, trace, snap, stmt, hist,
          ntxn, aborted, file, xlog, cursor, xout, dir, dents, scans>>

\* a null tuple or space pointer, and a null struct pointer (txn, row, header)
NULL == "NULL"
NIL == [nil |-> TRUE]

\* ------------------------------------------------------------------ bounds
MaxTxns == 2

\* ------------------------------------------------------------- the world
Fibers == {1, 2}
Tuples == {"t1", "t2", "t3"}
Keys == {"k1", "k2"}
Spaces == {"s", "tmp"}
Types == {"INSERT", "DELETE"}

\* the primary key of a tuple: t1 and t2 collide
Key(t) == IF t = "t3" THEN "k2" ELSE "k1"

\* enum dup_replace_mode
DUP_INSERT == "DUP_INSERT"
DUP_REPLACE == "DUP_REPLACE"
DUP_REPLACE_OR_INSERT == "DUP_REPLACE_OR_INSERT"
Modes == {DUP_INSERT, DUP_REPLACE, DUP_REPLACE_OR_INSERT}

\* enum wal_mode.  txn.cc compares the mode with WAL_NONE only: WAL_WRITE
\* stands for every mode in which the log is written.
WAL_NONE == "WAL_NONE"
WAL_WRITE == "WAL_WRITE"
WalModes == {WAL_NONE, WAL_WRITE}

\* space->temporary
space_is_temporary(space) == space = "tmp"

\* !rlist_empty(&space->on_replace) && space->run_triggers
space_runs_on_replace(space) == space = "s"

\* struct request: a type and an optional pre-built header
Requests ==
    {[type |-> ty, header |-> NIL] : ty \in Types} \cup
    {[type |-> ty, header |-> [type |-> ty, body |-> "header"]] : ty \in Types}

\* an entry of trace
Ev(name) == [e |-> name, t |-> NULL]
EvT(name, tuple) == [e |-> name, t |-> tuple]

\* region_alloc0(&fiber()->gc, sizeof(struct txn)) in txn_begin
ZeroTxn == [old_tuple |-> NULL, new_tuple |-> NULL, space |-> NULL, row |-> NIL]


\* --------------------------------------------------------------- the engine
\* tuple_ref(tuple, count)
tuple_ref(r, tuple, count) == [r EXCEPT ![tuple] = @ + count]

\* the index without the tuple stored under old_tuple's key
index_delete(ix, old_tuple) == [ix EXCEPT ![Key(old_tuple)] = NULL]

\* space_replace(space, old_tuple, new_tuple, mode) on the primary index ix of
\* the space: the index after the call and the displaced tuple, or the error
\* raised with the index restored.  A collision is an error under DUP_INSERT,
\* required under DUP_REPLACE, either under DUP_REPLACE_OR_INSERT.
space_replace(ix, old_tuple, new_tuple, mode) ==
    IF new_tuple # NULL
    THEN LET dup == ix[Key(new_tuple)]
             errcode ==
                 IF dup = NULL
                 THEN IF mode = DUP_REPLACE THEN "ER_TUPLE_NOT_FOUND" ELSE "ok"
                 ELSE IF dup # old_tuple /\ (old_tuple # NULL \/ mode = DUP_INSERT)
                      THEN "ER_TUPLE_FOUND" ELSE "ok"
             ix1 == [ix EXCEPT ![Key(new_tuple)] = new_tuple]
         IN  IF errcode # "ok"
             THEN [err |-> errcode, ix |-> ix, tuple |-> NULL]
             ELSE IF dup # NULL
             THEN [err |-> "ok", ix |-> ix1, tuple |-> dup]
             ELSE IF old_tuple # NULL
             THEN [err |-> "ok", ix |-> index_delete(ix1, old_tuple),
                   tuple |-> old_tuple]
             ELSE [err |-> "ok", ix |-> ix1, tuple |-> NULL]
    ELSE IF old_tuple # NULL
    THEN [err |-> "ok", ix |-> index_delete(ix, old_tuple), tuple |-> old_tuple]
    ELSE [err |-> "ok", ix |-> ix, tuple |-> NULL]

\* wal_write(recovery_state, row): the outcomes of one call, each the value
\* returned and the log after it.  Mode NONE appends nothing and cannot fail;
\* otherwise the row is appended (0) or the write fails (-1).
wal_write(mode, lg, row) ==
    IF mode = WAL_NONE
    THEN {[res |-> 0, log |-> lg]}
    ELSE {[res |-> 0, log |-> IF row # NIL THEN Append(lg, row) ELSE lg],
          [res |-> -1, log |-> lg]}

\* the tuples a lookup in the space can return
Stored(space) == {index[space][k] : k \in Keys} \ {NULL}

\* the tuples a request can have just built: referenced by nobody
Fresh == {t \in Tuples : refs[t] = 0 /\ \A s \in Spaces : t \notin Stored(s)}

\* ------------------------------------------------------------ trace helpers
Events(f) == {trace[f][i].e : i \in 1..Len(trace[f])}
Count(f, name) == Cardinality({i \in 1..Len(trace[f]) : trace[f][i].e = name})
Pos(f, name) ==
    IF name \in Events(f)
    THEN CHOOSE i \in 1..Len(trace[f]) :
             /\ trace[f][i].e = name
             /\ \A j \in 1..(i - 1) : trace[f][j].e # name
    ELSE 0
LastEv(f) == IF trace[f] = <<>> THEN "none" ELSE trace[f][Len(trace[f])].e

\* ------------------------------------------------------------------- Init
EmptyIndex == [s \in Spaces |-> [k \in Keys |-> NULL]]
NoRefs == [t \in Tuples |-> 0]

\* what recovery can have left in the engine before the first request:
\* nothing, or one tuple in the space s, held by its index
Recovered ==
    {[index |-> EmptyIndex, refs |-> NoRefs],
     [index |-> [EmptyIndex EXCEPT !["s"][Key("t1")] = "t1"],
      refs |-> [NoRefs EXCEPT !["t1"] = 1]]}

\* no log file is being read
NoXlog == file = NIL /\ xlog = NIL /\ cursor = NIL /\ xout = <<>>

\* no directory is being scanned
NoXdir == dir = NIL /\ dents = <<>> /\ scans = <<>>

Init ==
    /\ NoXlog
    /\ NoXdir
    /\ \E r \in Recovered : index = r.index /\ refs = r.refs
    /\ in_txn = [f \in Fibers |-> NIL]
    /\ gc = [f \in Fibers |-> <<>>]
    /\ wal_mode \in WalModes
    /\ log = <<>>
    /\ pc = [f \in Fibers |-> "idle"]
    /\ trace = [f \in Fibers |-> <<>>]
    /\ snap = [f \in Fibers |->
           [index |-> EmptyIndex, refs |-> NoRefs, log |-> <<>>]]
    /\ stmt = [f \in Fibers |-> NIL]
    /\ hist = [f \in Fibers |-> <<>>]
    /\ ntxn = 0
    /\ aborted = FALSE

\* ------------------------------------------------------------- txn_begin
\* what txn_begin leaves in the slot, the region and the bookkeeping
begin_install(f) ==
    /\ in_txn' = [in_txn EXCEPT ![f] = ZeroTxn]
    /\ gc' = [gc EXCEPT ![f] = Append(@, "txn")]
    /\ pc' = [pc EXCEPT ![f] = "active"]
    /\ trace' = [trace EXCEPT ![f] = <<Ev("begin")>>]
    /\ snap' = [snap EXCEPT ![f] =
           [index |-> index, refs |-> refs, log |-> log]]
    /\ stmt' = [stmt EXCEPT ![f] = NIL]
    /\ ntxn' = ntxn + 1
    /\ hist' = [hist EXCEPT ![f] = IF in_txn[f] = NIL THEN @ ELSE <<>>]
    /\ UNCHANGED <<index, refs, wal_mode, log>>

\* assert(! in_txn()) is the only check: with a transaction in the slot the
\* process aborts (assertions compiled in) or the slot is overwritten with a
\* new zeroed struct (NDEBUG), the earlier struct left in the region.
txn_begin(f) ==
    /\ ~aborted
    /\ pc[f] \in {"idle", "active"}
    /\ ntxn < MaxTxns
    /\ IF in_txn[f] = NIL
       THEN begin_install(f) /\ UNCHANGED aborted
       ELSE \/ /\ aborted' = TRUE
               /\ trace' = [trace EXCEPT ![f] = Append(@, Ev("begin_abort"))]
               /\ UNCHANGED <<index, refs, in_txn, gc, wal_mode, log, pc,
                              snap, stmt, hist, ntxn>>
            \/ begin_install(f) /\ UNCHANGED aborted

\* ----------------------------------------------------------- txn_add_redo
\* an add_redo that never builds a row of its own
add_redo_row_header_only(request, mode) == request.header

\* the row txn_add_redo leaves in txn->row
add_redo_row(request, mode) ==
    IF mode = WAL_NONE \/ request.header # NIL
    THEN request.header
    ELSE [type |-> request.type, body |-> "encoded"]

\* whether txn_add_redo allocates the row in the fiber's region
add_redo_allocates(request, mode) ==
    ~(mode = WAL_NONE \/ request.header # NIL)

txn_add_redo(f, request) ==
    /\ ~aborted
    /\ pc[f] = "active"
    /\ in_txn[f] # NIL
    /\ in_txn' = [in_txn EXCEPT ![f].row = add_redo_row(request, wal_mode)]
    /\ gc' = [gc EXCEPT ![f] =
                 IF add_redo_allocates(request, wal_mode)
                 THEN Append(@, "row") ELSE @]
    /\ trace' = [trace EXCEPT ![f] = Append(@,
           EvT("add_redo",
               IF add_redo_row(request, wal_mode) # NIL THEN "row" ELSE NULL))]
    /\ UNCHANGED <<index, refs, wal_mode, log, pc, snap, stmt, hist, ntxn,
                   aborted>>

\* ------------------------------------------------------------ txn_replace
\* a replace that leaves a delete to a later call: the engine is called only
\* when there is a new tuple
replace_engine_inserts_only(ix, old_tuple, new_tuple, mode) ==
    IF new_tuple = NULL
    THEN [err |-> "ok", ix |-> ix, tuple |-> old_tuple]
    ELSE space_replace(ix, old_tuple, new_tuple, mode)

\* the engine call of txn_replace
replace_engine(ix, old_tuple, new_tuple, mode) ==
    space_replace(ix, old_tuple, new_tuple, mode)

\* the txn fields after a replace, the space remembered only with a tuple
replace_fields_space_with_tuple(txn, space, displaced, new_tuple) ==
    [txn EXCEPT !.old_tuple = displaced,
                !.new_tuple = IF new_tuple # NULL THEN new_tuple ELSE @,
                !.space = IF displaced # NULL \/ new_tuple # NULL
                          THEN space ELSE @]

\* the txn fields after a replace that displaced the tuple 'displaced'
replace_fields(txn, space, displaced, new_tuple) ==
    [txn EXCEPT !.old_tuple = displaced,
                !.new_tuple = IF new_tuple # NULL THEN new_tuple ELSE @,
                !.space = space]

\* the reference txn_replace takes
replace_refs(r, new_tuple) ==
    IF new_tuple # NULL THEN tuple_ref(r, new_tuple, 1) ELSE r

\* assert(old_tuple || new_tuple) is the only check of the arguments: with
\* both null the process aborts (assertions compiled in) or the call goes on
\* (NDEBUG), the engine displacing nothing and the space remembered all the
\* same.
replace_asserts(old_tuple, new_tuple) == old_tuple # NULL \/ new_tuple # NULL

txn_replace_abort(f, old_tuple, new_tuple) ==
    /\ ~aborted
    /\ pc[f] = "active"
    /\ in_txn[f] # NIL
    /\ ~replace_asserts(old_tuple, new_tuple)
    /\ aborted' = TRUE
    /\ trace' = [trace EXCEPT ![f] = Append(@, Ev("replace_abort"))]
    /\ UNCHANGED <<index, refs, in_txn, gc, wal_mode, log, pc, snap, stmt,
                   hist, ntxn>>

txn_replace(f, space, old_tuple, new_tuple, mode) ==
    /\ ~aborted
    /\ pc[f] = "active"
    /\ in_txn[f] # NIL
    /\ LET r == replace_engine(index[space], old_tuple, new_tuple, mode)
       IN  IF r.err # "ok"
           THEN \* space_replace raised: nothing of the txn is assigned
                /\ pc' = [pc EXCEPT ![f] = "raised"]
                /\ trace' = [trace EXCEPT ![f] = Append(@, Ev("replace_raise"))]
                /\ stmt' = [stmt EXCEPT ![f] =
                       [space |-> space, old |-> old_tuple, new |-> new_tuple,
                        mode |-> mode, err |-> r.err, displaced |-> NULL]]
                /\ UNCHANGED <<index, refs, in_txn>>
           ELSE /\ index' = [index EXCEPT ![space] = r.ix]
                /\ in_txn' = [in_txn EXCEPT ![f] =
                       replace_fields(@, space, r.tuple, new_tuple)]
                /\ refs' = replace_refs(refs, new_tuple)
                /\ trace' = [trace EXCEPT ![f] =
                       @ \o <<Ev("replace")>> \o
                       (IF space_runs_on_replace(space)
                        THEN <<Ev("on_replace")>> ELSE <<>>)]
                /\ stmt' = [stmt EXCEPT ![f] =
                       [space |-> space, old |-> old_tuple, new |-> new_tuple,
                        mode |-> mode, err |-> "ok", displaced |-> r.tuple]]
                /\ UNCHANGED pc
    /\ UNCHANGED <<gc, wal_mode, log, snap, hist, ntxn, aborted>>


\* -------------------------------------------------------- port_send_tuple
\* port_send_tuple that prefers the displaced tuple
port_send_tuple_old_first(txn) ==
    IF txn.old_tuple # NULL THEN <<EvT("port_add_tuple", txn.old_tuple)>>
    ELSE IF txn.new_tuple # NULL THEN <<EvT("port_add_tuple", txn.new_tuple)>>
    ELSE <<>>

\* what port_send_tuple hands to port_add_tuple
port_send_tuple(txn) ==
    IF txn.new_tuple # NULL THEN <<EvT("port_add_tuple", txn.new_tuple)>>
    ELSE IF txn.old_tuple # NULL THEN <<EvT("port_add_tuple", txn.old_tuple)>>
    ELSE <<>>

\* ------------------------------------------------------------- txn_finish
\* txn_finish that drops the reference on new_tuple as well
finish_refs_new_too(r, txn) ==
    LET r1 == IF txn.old_tuple # NULL THEN tuple_ref(r, txn.old_tuple, -1) ELSE r
    IN  IF txn.new_tuple # NULL THEN tuple_ref(r1, txn.new_tuple, -1) ELSE r1

\* the reference txn_finish drops
finish_refs(r, txn) ==
    IF txn.old_tuple # NULL THEN tuple_ref(r, txn.old_tuple, -1) ELSE r

\* txn_finish(txn), entered after the calls 'ev' of the enclosing txn_commit
txn_finish(f, ev) ==
    LET txn == in_txn[f]
    IN  /\ refs' = finish_refs(refs, txn)
        /\ trace' = [trace EXCEPT ![f] =
               @ \o ev \o <<Ev("finish")>> \o
               (IF txn.space # NULL THEN <<Ev("txnFinish")>> ELSE <<>>) \o
               <<Ev("fiber_gc"), Ev("clear")>>]
        /\ gc' = [gc EXCEPT ![f] = <<>>]
        /\ in_txn' = [in_txn EXCEPT ![f] = NIL]

\* ------------------------------------------------------------- txn_commit
\* a commit that logs temporary spaces too
commit_logs_temporary(txn) == txn.old_tuple # NULL \/ txn.new_tuple # NULL

\* a commit that tests the log mode itself and skips wal_write under NONE
commit_logs_unless_none(txn) ==
    /\ wal_mode # WAL_NONE
    /\ txn.old_tuple # NULL \/ txn.new_tuple # NULL
    /\ ~space_is_temporary(txn.space)

\* a commit that never goes through the log
commit_logs_never(txn) == FALSE

\* the condition under which txn_commit goes through the log
commit_logs(txn) ==
    (txn.old_tuple # NULL \/ txn.new_tuple # NULL)
        /\ ~space_is_temporary(txn.space)

\* assert(recovery_state->wal_mode == WAL_NONE || txn->row != NULL)
commit_assert(txn, mode) == mode = WAL_NONE \/ txn.row # NIL

\* a commit that ignores the value wal_write returns
wal_failed_ignored(res) == FALSE

\* if (res) tnt_raise(LoggedError, ER_WAL_IO)
wal_failed(res) == res # 0

\* txn_commit up to the call of wal_write, where the fiber is suspended
commit_call_wal(f) ==
    /\ pc' = [pc EXCEPT ![f] = "wal"]
    /\ trace' = [trace EXCEPT ![f] = @ \o <<Ev("commit"), Ev("wal_write")>>]
    /\ UNCHANGED <<index, refs, in_txn, gc, wal_mode, log, snap, stmt, hist,
                   ntxn, aborted>>

\* what hist keeps of a committed transaction: the index before it and its
\* replace()
Committed(f) ==
    IF stmt[f] = NIL
    THEN [index |-> snap[f].index, space |-> NULL, old |-> NULL,
          new |-> NULL, displaced |-> NULL]
    ELSE [index |-> snap[f].index, space |-> stmt[f].space,
          old |-> stmt[f].old, new |-> stmt[f].new,
          displaced |-> stmt[f].displaced]

\* txn_commit after the log step: triggers, port, txn_finish
commit_tail(f, ev) ==
    /\ txn_finish(f, ev \o <<Ev("on_commit")>> \o port_send_tuple(in_txn[f]))
    /\ pc' = [pc EXCEPT ![f] = "idle"]
    /\ hist' = [hist EXCEPT ![f] =
           Append(IF Len(@) = 2 THEN Tail(@) ELSE @, Committed(f))]
    /\ UNCHANGED <<index, wal_mode, snap, stmt, ntxn, aborted>>

\* txn_commit(txn, port), from its entry to the call of wal_write or, when
\* the log step is skipped, to its end
txn_commit(f) ==
    /\ ~aborted
    /\ pc[f] = "active"
    /\ in_txn[f] # NIL
    /\ IF commit_logs(in_txn[f])
       THEN IF commit_assert(in_txn[f], wal_mode)
            THEN commit_call_wal(f)
            ELSE \* the assertion fails: abort, or NDEBUG and the call is made
                 \/ /\ aborted' = TRUE
                    /\ trace' = [trace EXCEPT ![f] =
                           @ \o <<Ev("commit"), Ev("commit_abort")>>]
                    /\ UNCHANGED <<index, refs, in_txn, gc, wal_mode, log, pc,
                                   snap, stmt, hist, ntxn>>
                 \/ commit_call_wal(f)
       ELSE commit_tail(f, <<Ev("commit")>>) /\ UNCHANGED log

\* the trace entry of wal_write's return
wal_returned(res) == Ev(IF res = 0 THEN "wal_ok" ELSE "wal_err")

\* txn_commit from the return of wal_write to its end
txn_commit_resume(f) ==
    /\ ~aborted
    /\ pc[f] = "wal"
    /\ \E out \in wal_write(wal_mode, log, in_txn[f].row) :
          /\ log' = out.log
          /\ IF wal_failed(out.res)
             THEN /\ pc' = [pc EXCEPT ![f] = "raised"]
                  /\ trace' = [trace EXCEPT ![f] =
                         @ \o <<wal_returned(out.res), Ev("raise")>>]
                  /\ UNCHANGED <<index, refs, in_txn, gc, wal_mode, snap, stmt,
                                 hist, ntxn, aborted>>
             ELSE commit_tail(f, <<wal_returned(out.res)>>)

\* ----------------------------------------------------------- txn_rollback
\* rollback that hands the tuples to the engine in commit order
rollback_engine_swapped(ix, txn) ==
    space_replace(ix, txn.old_tuple, txn.new_tuple, DUP_INSERT)

\* the engine call of txn_rollback
rollback_engine(ix, txn) ==
    space_replace(ix, txn.new_tuple, txn.old_tuple, DUP_INSERT)

\* the reference txn_rollback drops
rollback_refs(r, txn) ==
    IF txn.new_tuple # NULL THEN tuple_ref(r, txn.new_tuple, -1) ELSE r

\* a rollback that leaves the region to the next request
rollback_release_no_gc(f, ev) ==
    /\ hist' = [hist EXCEPT ![f] = <<>>]
    /\ trace' = [trace EXCEPT ![f] = @ \o ev \o <<Ev("clear")>>]
    /\ gc' = gc
    /\ in_txn' = [in_txn EXCEPT ![f] = NIL]
    /\ pc' = [pc EXCEPT ![f] = "idle"]

\* the end of txn_rollback: TRASH, fiber_gc, in_txn() = NULL
rollback_release(f, ev) ==
    /\ hist' = [hist EXCEPT ![f] = <<>>]
    /\ trace' = [trace EXCEPT ![f] = @ \o ev \o <<Ev("fiber_gc"), Ev("clear")>>]
    /\ gc' = [gc EXCEPT ![f] = <<>>]
    /\ in_txn' = [in_txn EXCEPT ![f] = NIL]
    /\ pc' = [pc EXCEPT ![f] = "idle"]

txn_rollback(f) ==
    /\ ~aborted
    /\ pc[f] \in {"idle", "active", "raised"}
    /\ LET txn == in_txn[f]
       IN  IF txn = NIL
           THEN \* return, nothing done
                /\ trace' = [trace EXCEPT ![f] = <<Ev("rollback")>>]
                /\ UNCHANGED <<index, refs, in_txn, gc, pc, hist>>
           ELSE IF txn.old_tuple # NULL \/ txn.new_tuple # NULL
           THEN LET r == rollback_engine(index[txn.space], txn)
                IN  IF r.err # "ok"
                    THEN \* space_replace raised out of txn_rollback
                         /\ trace' = [trace EXCEPT ![f] =
                                @ \o <<Ev("rollback"), Ev("rollback_raise")>>]
                         /\ pc' = [pc EXCEPT ![f] = "raised"]
                         /\ UNCHANGED <<index, refs, in_txn, gc, hist>>
                    ELSE /\ index' = [index EXCEPT ![txn.space] = r.ix]
                         /\ refs' = rollback_refs(refs, txn)
                         /\ rollback_release(f,
                                <<Ev("rollback"), Ev("undo"), Ev("on_rollback")>>)
           ELSE /\ rollback_release(f, <<Ev("rollback")>>)
                /\ UNCHANGED <<index, refs>>
    /\ UNCHANGED <<wal_mode, log, snap, stmt, ntxn, aborted>>

\* ------------------------------------------------------ the fiber's request
\* one txn_add_redo per transaction
AddRedo(f) ==
    /\ "add_redo" \notin Events(f)
    /\ \E request \in Requests : txn_add_redo(f, request)

\* one txn_replace per transaction; old_tuple comes from a lookup in the
\* space, new_tuple was just built
Replace(f) ==
    /\ stmt[f] = NIL
    /\ \E space \in Spaces, mode \in Modes :
       \E old_tuple \in Stored(space) \cup {NULL}, new_tuple \in Fresh \cup {NULL} :
          \/ txn_replace(f, space, old_tuple, new_tuple, mode)
          \/ txn_replace_abort(f, old_tuple, new_tuple)

Step(f) ==
    \/ txn_begin(f) /\ UNCHANGED <<xlog_vars, xdir_vars>>
    \/ AddRedo(f) /\ UNCHANGED <<xlog_vars, xdir_vars>>
    \/ Replace(f) /\ UNCHANGED <<xlog_vars, xdir_vars>>
    \/ txn_commit(f) /\ UNCHANGED <<xlog_vars, xdir_vars>>
    \/ txn_commit_resume(f) /\ UNCHANGED <<xlog_vars, xdir_vars>>
    \/ txn_rollback(f) /\ UNCHANGED <<xlog_vars, xdir_vars>>

Next == Step(1)

Spec == Init /\ [][Next]_vars

\* --------------------------------------------------------- two fibers
\* Fibers are scheduled cooperatively on one thread: a fiber gives up the
\* thread only inside wal_write and between requests, so a fiber runs while
\* every other one is suspended in wal_write or has no request in progress.
\* An error raised out of txn_rollback ends the fiber's request with the
\* transaction left in its slot; the fiber is not followed further.
Ended(g) == "rollback_raise" \in Events(g)

Runnable(f) ==
    /\ ~Ended(f)
    /\ \A g \in Fibers \ {f} : pc[g] \in {"idle", "wal"} \/ Ended(g)

\* the space both fibers work on
SharedSpace == "s"

\* A fiber's request here is the usual one: begin on an empty slot, add_redo,
\* one replace on the shared space with a tuple to remove or to install,
\* then commit, or rollback of the live transaction.
BeginTwo(f) == Runnable(f) /\ in_txn[f] = NIL /\ txn_begin(f)

AddRedoTwo(f) == Runnable(f) /\ AddRedo(f)

ReplaceTwo(f) ==
    /\ Runnable(f)
    /\ stmt[f] = NIL
    /\ "add_redo" \in Events(f)
    /\ \E mode \in Modes :
       \E old_tuple \in Stored(SharedSpace) \cup {NULL}, new_tuple \in Fresh \cup {NULL} :
          /\ replace_asserts(old_tuple, new_tuple)
          /\ txn_replace(f, SharedSpace, old_tuple, new_tuple, mode)

CommitTwo(f) == Runnable(f) /\ stmt[f] # NIL /\ txn_commit(f)

ResumeTwo(f) == Runnable(f) /\ txn_commit_resume(f)

RollbackTwo(f) == Runnable(f) /\ in_txn[f] # NIL /\ txn_rollback(f)

NextTwo ==
    \E f \in Fibers :
        \/ BeginTwo(f) /\ UNCHANGED <<xlog_vars, xdir_vars>>
        \/ AddRedoTwo(f) /\ UNCHANGED <<xlog_vars, xdir_vars>>
        \/ ReplaceTwo(f) /\ UNCHANGED <<xlog_vars, xdir_vars>>
        \/ CommitTwo(f) /\ UNCHANGED <<xlog_vars, xdir_vars>>
        \/ ResumeTwo(f) /\ UNCHANGED <<xlog_vars, xdir_vars>>
        \/ RollbackTwo(f) /\ UNCHANGED <<xlog_vars, xdir_vars>>

SpecTwo == Init /\ [][NextTwo]_vars

\* ------------------------------------------- several replaces in one txn
\* txn_replace does not look at what the transaction already holds, so a
\* caller can call it again on the same transaction.
MaxReplaces == 2

\* transactions followed with several replaces
MaxMultiTxns == 1

Replaces(f) == Count(f, "replace") + Count(f, "replace_raise")

ReplaceMulti(f) ==
    /\ Replaces(f) < MaxReplaces
    /\ \E space \in Spaces, mode \in Modes :
       \E old_tuple \in Stored(space) \cup {NULL}, new_tuple \in Fresh \cup {NULL} :
          /\ replace_asserts(old_tuple, new_tuple)
          /\ txn_replace(f, space, old_tuple, new_tuple, mode)

StepMulti(f) ==
    \/ /\ in_txn[f] = NIL
       /\ ntxn < MaxMultiTxns
       /\ txn_begin(f)
       /\ UNCHANGED <<xlog_vars, xdir_vars>>
    \/ AddRedo(f) /\ UNCHANGED <<xlog_vars, xdir_vars>>
    \/ ReplaceMulti(f) /\ UNCHANGED <<xlog_vars, xdir_vars>>
    \/ txn_commit(f) /\ UNCHANGED <<xlog_vars, xdir_vars>>
    \/ txn_commit_resume(f) /\ UNCHANGED <<xlog_vars, xdir_vars>>
    \/ txn_rollback(f) /\ UNCHANGED <<xlog_vars, xdir_vars>>

NextMulti == StepMulti(1)

SpecMulti == Init /\ [][NextMulti]_vars

\* ------------------------------------------------------------ type invariant
TypeOK ==
    /\ \A s \in Spaces, k \in Keys : index[s][k] \in Tuples \cup {NULL}
    /\ \A t \in Tuples : refs[t] \in Int
    /\ \A f \in Fibers : pc[f] \in {"idle", "active", "wal", "raised"}
    /\ wal_mode \in WalModes
    /\ ntxn \in 0..MaxTxns
    /\ aborted \in BOOLEAN


\* ============================================================ v11 log files
\* Bytes are 0..255; a file offset o is the position before bytes[o + 1].

\* log_magic_t values as the four bytes fread() leaves in memory (little endian)
row_marker_v11 == <<237, 171, 11, 186>>
eof_marker_v11 == <<30, 171, 173, 16>>
sizeof_magic == 4
\* struct header_v11 (packed): header_crc32c 4, lsn 8, tm 8, len 4, data_crc32c 4
sizeof_header_v11 == 28
\* struct row_v11 after the header: tag 2, cookie 8, then the data
sizeof_tag_cookie == 10

\* header lines and the buffers xlog_v11_read_meta reads them into
v11 == <<48, 46, 49, 49, 10>>
XLOG_line == <<88, 76, 79, 71, 10>>
SNAP_line == <<83, 78, 65, 80, 10>>
LF == <<10>>
CRLF == <<13, 10>>
sizeof_filetype == 32
sizeof_version == 32
sizeof_buf == 256
XLOG == "XLOG"
SNAP == "SNAP"

\* n as w little endian bytes
RECURSIVE le(_, _)
le(n, w) == IF w = 0 THEN <<>> ELSE <<n % 256>> \o le(n \div 256, w - 1)

\* the uint32_t in four little endian bytes, for values below 2^31
le32(b) == b[1] + 256 * b[2] + 65536 * b[3] + 16777216 * b[4]

\* n times the byte c
fill(c, n) == [i \in 1..n |-> c]

\* crc32_calc(0, buf, len): a 32 bit checksum of the bytes, as four bytes
RECURSIVE crc_sum(_, _)
crc_sum(bytes, i) ==
    IF i = 0 THEN 1 ELSE (crc_sum(bytes, i - 1) * 31 + bytes[i] + i) % 65521
crc32_calc(bytes) == le(crc_sum(bytes, Len(bytes)), 4)

\* one framed record as the appender writes it: marker, header_v11 with both
\* checksums, then tag, cookie and data
row_v11(lsn, tag, data) ==
    LET body == le(tag, 2) \o le(0, 8) \o data
        covered == le(lsn, 8) \o le(0, 8) \o le(Len(body), 4) \o crc32_calc(body)
    IN  row_marker_v11 \o crc32_calc(covered) \o covered \o body

\* do both checksums of the record framed at offset off (its marker) match
crc_ok(bytes, off) ==
    LET h == off + sizeof_magic
    IN  /\ h + sizeof_header_v11 <= Len(bytes)
        /\ LET m == SubSeq(bytes, h + 1, h + sizeof_header_v11)
               lenb == SubSeq(m, 21, 24)
           IN  /\ lenb[4] < 128
               /\ h + sizeof_header_v11 + le32(lenb) <= Len(bytes)
               /\ SubSeq(m, 1, 4) = crc32_calc(SubSeq(m, 5, sizeof_header_v11))
               /\ SubSeq(m, 25, 28) =
                      crc32_calc(SubSeq(bytes, h + sizeof_header_v11 + 1,
                                        h + sizeof_header_v11 + le32(lenb)))

\* ------------------------------------------------------------------ stdio
\* fread(ptr, size, 1, f) at position pos: 1 and the bytes if size of them are
\* left (and size > 0), else 0 with whatever was left consumed
fread(bytes, pos, size) ==
    IF size > 0 /\ pos + size <= Len(bytes)
    THEN [n |-> 1, pos |-> pos + size, buf |-> SubSeq(bytes, pos + 1, pos + size)]
    ELSE [n |-> 0, pos |-> IF size > 0 /\ pos < Len(bytes) THEN Len(bytes) ELSE pos,
          buf |-> <<>>]

\* the least element of a non-empty set of integers
Least(S) == CHOOSE x \in S : \A y \in S : x <= y

\* how many bytes fgets takes from pos: through the first newline, at most max
line_len(bytes, pos, max) ==
    LET last == IF pos + max < Len(bytes) THEN pos + max ELSE Len(bytes)
        newlines == {i \in (pos + 1)..last : bytes[i] = 10}
    IN  IF newlines = {} THEN last - pos ELSE Least(newlines) - pos

\* fgets(s, size, stream): NULL at end of file, else at most size - 1 bytes
fgets(bytes, pos, size) ==
    LET n == line_len(bytes, pos, size - 1)
    IN  [null |-> n = 0, s |-> SubSeq(bytes, pos + 1, pos + n), pos |-> pos + n]

\* the C string in a buffer: the bytes before the first NUL
cstr(s) ==
    LET nuls == {i \in 1..Len(s) : s[i] = 0}
    IN  IF nuls = {} THEN s ELSE SubSeq(s, 1, Least(nuls) - 1)

\* strcmp(a, b) == 0
streq(a, b) == cstr(a) = cstr(b)

\* ------------------------------------------------------ xlog_v11_read_meta
\* the for (;;) loop: the position after the line that ends the header, or -1
\* when fgets returns NULL first
RECURSIVE read_meta_lines(_, _)
read_meta_lines(bytes, pos) ==
    LET buf == fgets(bytes, pos, sizeof_buf)
    IN  IF buf.null THEN -1
        ELSE IF streq(buf.s, LF) \/ streq(buf.s, CRLF) THEN buf.pos
        ELSE read_meta_lines(bytes, buf.pos)

\* does the version line say 0.11
version_is_v11(version) == streq(version, v11)

\* xlog_v11_read_meta(l, meta): 0 and the position of l->f after the header,
\* or -1
xlog_v11_read_meta(bytes, dirtype) ==
    LET filetype == fgets(bytes, 0, sizeof_filetype)
        version == fgets(bytes, filetype.pos, sizeof_version)
        failed == [res |-> -1, pos |-> 0, type |-> NULL]
    IN  IF filetype.null \/ version.null THEN failed
        ELSE IF ~version_is_v11(version.s) THEN failed
        ELSE IF ~(\/ streq(XLOG_line, filetype.s) /\ dirtype = XLOG
                  \/ streq(SNAP_line, filetype.s) /\ dirtype = SNAP)
        THEN failed
        ELSE LET end == read_meta_lines(bytes, version.pos)
             IN  IF end = -1 THEN failed
                 ELSE [res |-> 0, pos |-> end, type |-> dirtype]

\* ---------------------------------------------------------- row_reader_v11
ROW_EOF == "ROW_EOF"

\* row_reader_v11(f, rowlen) at position pos: ROW_EOF on a short read of the
\* header or of the body, NULL when region_alloc fails, else the row.  No
\* checksum decides anything: both comparisons are compiled out (#if 0).
row_reader_v11(bytes, pos, alloc_ok) ==
    LET m == fread(bytes, pos, sizeof_header_v11)
    IN  IF m.n # 1 THEN [row |-> ROW_EOF, pos |-> m.pos, rowlen |-> 0, alloc |-> FALSE]
        ELSE IF ~alloc_ok THEN [row |-> NULL, pos |-> m.pos, rowlen |-> 0, alloc |-> FALSE]
        ELSE LET len == SubSeq(m.buf, 21, 24)
                 \* a len of 2^31 and more is longer than any file here
                 body == IF len[4] >= 128
                         THEN [n |-> 0, pos |-> Len(bytes)]
                         ELSE fread(bytes, m.pos, le32(len))
             IN  IF body.n # 1
                 THEN [row |-> ROW_EOF, pos |-> body.pos, rowlen |-> 0, alloc |-> TRUE]
                 ELSE [row |-> "row", pos |-> body.pos,
                       rowlen |-> le32(len) + sizeof_header_v11, alloc |-> TRUE]

\* ------------------------------------------------------ xlog_cursor_v11_next
Say(text, n) == [say |-> text, n |-> n]

\* the while loop: the window magic holds the four bytes before pos and slides
\* a byte at a time (magic >> 8 | c << 24) until it holds the row marker; the
\* position after the marker, or -1 when fgetc returns EOF
find_magic(bytes, magic, pos) ==
    LET hits == {q \in pos..Len(bytes) :
                    SubSeq(bytes, q - sizeof_magic + 1, q) = row_marker_v11}
    IN  IF magic = row_marker_v11 THEN pos
        ELSE IF hits = {} THEN -1
        ELSE Least(hits)

\* a restart that seeks back to the marker it has just tried
restart_pos_same_marker(pos, marker_offset) ==
    IF marker_offset > 0 THEN marker_offset ELSE pos

\* where the label restart starts to read
restart_pos(pos, marker_offset) ==
    IF marker_offset > 0 THEN marker_offset + 1 ELSE pos

\* from the label restart to the return of a row or the jump to eof, with the
\* first nfail calls of region_alloc failing
RECURSIVE cursor_read(_, _, _, _, _, _)
cursor_read(bytes, pos, good_offset, marker_offset, nfail, says) ==
    LET magic == fread(bytes, restart_pos(pos, marker_offset), sizeof_magic)
    IN  IF magic.n # 1
        THEN [row |-> NIL, pos |-> magic.pos, says |-> says, allocs |-> 0]
        ELSE
        LET found == find_magic(bytes, magic.buf, magic.pos)
        IN  IF found = -1
            THEN [row |-> NIL, pos |-> Len(bytes), says |-> says, allocs |-> 0]
            ELSE
            LET at == found - sizeof_magic
                says1 == IF good_offset # at
                         THEN Append(says, Say("skipped", at - good_offset))
                         ELSE says
                r == row_reader_v11(bytes, found, nfail = 0)
            IN  IF r.row = ROW_EOF
                THEN [row |-> NIL, pos |-> r.pos, says |-> says1,
                      allocs |-> IF r.alloc THEN 1 ELSE 0]
                ELSE IF r.row = NULL
                THEN cursor_read(bytes, r.pos, good_offset, at, nfail - 1,
                                 Append(says1, Say("failed to read row", at)))
                ELSE [row |-> [off |-> at, len |-> r.rowlen], pos |-> r.pos,
                      says |-> says1, allocs |-> 1]

\* an eof: that looks for the EOF marker wherever the read fell short
cursor_eof_any_position(bytes, pos, good_offset) ==
    LET magic == fread(bytes, good_offset, sizeof_magic)
    IN  IF magic.n = 1 /\ magic.buf = eof_marker_v11
        THEN [good_offset |-> magic.pos, eof_read |-> TRUE, pos |-> magic.pos,
              says |-> <<>>]
        ELSE [good_offset |-> good_offset, eof_read |-> FALSE, pos |-> pos,
              says |-> <<>>]

\* the label eof: what it leaves in good_offset, eof_read and the position
cursor_eof(bytes, pos, good_offset) ==
    IF pos = good_offset + sizeof_magic
    THEN LET magic == fread(bytes, good_offset, sizeof_magic)
         IN  IF magic.n # 1
             THEN [good_offset |-> good_offset, eof_read |-> FALSE, pos |-> magic.pos,
                   says |-> <<Say("can't read eof marker", 0)>>]
             ELSE IF magic.buf = eof_marker_v11
             THEN [good_offset |-> magic.pos, eof_read |-> TRUE, pos |-> magic.pos,
                   says |-> <<>>]
             ELSE IF magic.buf # row_marker_v11
             THEN [good_offset |-> good_offset, eof_read |-> FALSE, pos |-> magic.pos,
                   says |-> <<Say("eof marker is corrupt", 0)>>]
             ELSE [good_offset |-> good_offset, eof_read |-> FALSE, pos |-> magic.pos,
                   says |-> <<>>]
    ELSE [good_offset |-> good_offset, eof_read |-> FALSE, pos |-> pos, says |-> <<>>]

\* ------------------------------------------------------- the files on disk
MaxRows == 3

\* the k-th row a writer appends: lsn k, tag k, k bytes of data
Row(k) == row_v11(k, k, fill(64 + k, k))

\* a stretch of a file: the bytes, and whether they are one intact row
Good(k) == [bytes |-> Row(k), row |-> TRUE]
Bad(bytes) == [bytes |-> bytes, row |-> FALSE]

\* bytes with new written over them from offset off
Splice(bytes, off, new) ==
    SubSeq(bytes, 1, off) \o new \o SubSeq(bytes, off + Len(new) + 1, Len(bytes))

\* the stretches laid out from offset off: all the bytes, and where the intact
\* rows are
RECURSIVE Lay(_, _)
Lay(parts, off) ==
    IF parts = <<>> THEN [bytes |-> <<>>, rows |-> <<>>]
    ELSE LET p == Head(parts)
             rest == Lay(Tail(parts), off + Len(p.bytes))
         IN  [bytes |-> p.bytes \o rest.bytes,
              rows |-> (IF p.row
                        THEN <<[off |-> off, end |-> off + Len(p.bytes)]>>
                        ELSE <<>>) \o rest.rows]

\* rows 1..n as the appender wrote them
Intact(n) == [k \in 1..n |-> Good(k)]

\* row k with its last body byte changed after it was written
BodyDamaged(k) == Bad(Splice(Row(k), Len(Row(k)) - 1, <<0>>))

\* row k with its len field overwritten
LenDamaged(k, len) == Bad(Splice(Row(k), sizeof_magic + 20, len))
DamagedLens(k) ==
    {le(0, 4), le(sizeof_tag_cookie + k + 3, 4), <<0, 0, 0, 128>>}

\* a row lookalike: marker, a zeroed header with len 2, two body bytes
Lookalike == row_marker_v11 \o fill(0, 20) \o le(2, 4) \o fill(0, 4) \o <<1, 2>>

\* byte runs that are no row
Garbage ==
    {fill(0, 1), fill(0, 3), fill(0, 4), fill(0, 12), row_marker_v11,
     <<0>> \o row_marker_v11 \o fill(0, 7), Lookalike, <<7>> \o Lookalike}

\* does the marker occur in the bytes
HasMarker(bytes) ==
    \E i \in 0..(Len(bytes) - sizeof_magic) :
        SubSeq(bytes, i + 1, i + sizeof_magic) = row_marker_v11

NoDamage == [kind |-> "none", at |-> 0, d |-> 0, marker |-> FALSE]

\* a file: header, stretches, the EOF marker if the writer sealed it
File(header, wellformed, parts, sealed, damage) ==
    LET lay == Lay(parts, Len(header.bytes))
    IN  [bytes |-> header.bytes \o lay.bytes \o
                   (IF sealed THEN eof_marker_v11 ELSE <<>>),
         type |-> header.type,
         wellformed |-> wellformed,
         hdr |-> Len(header.bytes),
         rows |-> lay.rows,
         sealed |-> sealed,
         damage |-> damage]

XlogHeader == [bytes |-> XLOG_line \o v11 \o LF, type |-> XLOG]

\* logs as the appender left them
IntactFiles ==
    {File(XlogHeader, TRUE, Intact(n), sealed, NoDamage) :
        n \in 0..MaxRows, sealed \in BOOLEAN}

\* logs of n rows with row k damaged in place
DamagedAt(n, k) ==
    UNION {
        {File(XlogHeader, TRUE, [Intact(n) EXCEPT ![k] = BodyDamaged(k)], sealed,
              [kind |-> "body", at |-> k, d |-> 1, marker |-> FALSE])}
        \cup
        {File(XlogHeader, TRUE, [Intact(n) EXCEPT ![k] = LenDamaged(k, len)], sealed,
              [kind |-> "len", at |-> k, d |-> 4, marker |-> FALSE]) :
            len \in DamagedLens(k)} :
        sealed \in BOOLEAN}
DamagedFiles == UNION {UNION {DamagedAt(n, k) : k \in 1..n} : n \in 1..MaxRows}

\* logs of n rows with a run of garbage after row k (before row 1 when k = 0)
GapAt(n, k) ==
    {File(XlogHeader, TRUE,
          SubSeq(Intact(n), 1, k) \o <<Bad(g)>> \o SubSeq(Intact(n), k + 1, n),
          sealed,
          [kind |-> "gap", at |-> k, d |-> Len(g), marker |-> HasMarker(g)]) :
        g \in Garbage, sealed \in BOOLEAN}
GapFiles == UNION {UNION {GapAt(n, k) : k \in 0..n} : n \in 0..MaxRows}

\* logs whose last row lost its last c bytes in a crash
CutFiles ==
    {File(XlogHeader, TRUE,
          [Intact(n) EXCEPT ![n] = Bad(SubSeq(Row(n), 1, Len(Row(n)) - c))], FALSE,
          [kind |-> "cut", at |-> n, d |-> c, marker |-> FALSE]) :
        n \in 1..MaxRows, c \in {1, sizeof_tag_cookie + 2, Len(Row(1)) - sizeof_magic}}

\* headers a file can start with, and whether they are well formed: a filetype
\* line, the line 0.11, any lines, and a blank line before the end of the file
KV_line == <<107, 61, 118, 10>>
HeaderOf(bytes, type, wellformed) ==
    [h |-> [bytes |-> bytes, type |-> type], wellformed |-> wellformed]
Headers ==
    {HeaderOf(XLOG_line \o v11 \o LF, XLOG, TRUE),
     HeaderOf(SNAP_line \o v11 \o LF, SNAP, TRUE),
     HeaderOf(XLOG_line \o v11 \o KV_line \o CRLF, XLOG, TRUE),
     HeaderOf(XLOG_line \o v11 \o fill(97, sizeof_buf - 1) \o LF \o LF, XLOG, TRUE),
     HeaderOf(XLOG_line \o <<48, 46, 49, 50, 10>> \o LF, XLOG, FALSE),
     HeaderOf(<<88, 76, 65, 71, 10>> \o v11 \o LF, NULL, FALSE),
     HeaderOf(XLOG_line \o v11 \o KV_line, XLOG, FALSE),
     HeaderOf(XLOG_line \o v11 \o fill(97, sizeof_buf - 2) \o LF, XLOG, FALSE),
     HeaderOf(XLOG_line \o v11 \o fill(97, sizeof_buf - 1) \o LF, XLOG, FALSE),
     HeaderOf(XLOG_line \o v11 \o fill(97, sizeof_buf - 1) \o CRLF, XLOG, FALSE),
     HeaderOf(XLOG_line \o <<48, 46, 49, 49>>, XLOG, FALSE),
     HeaderOf(XLOG_line, XLOG, FALSE),
     HeaderOf(<<>>, NULL, FALSE)}

\* a file for each header: one row after a well formed one, else nothing more
HeaderFiles ==
    {File(x.h, x.wellformed, IF x.wellformed THEN Intact(1) ELSE <<>>, FALSE,
          [kind |-> "header", at |-> 0, d |-> 0, marker |-> FALSE]) : x \in Headers}
    \cup
    {File(HeaderOf(XLOG_line \o v11 \o KV_line, XLOG, FALSE).h, FALSE, Intact(1),
          FALSE, [kind |-> "header", at |-> 0, d |-> 0, marker |-> FALSE])}

Files == IntactFiles \cup DamagedFiles \cup GapFiles \cup CutFiles \cup HeaderFiles

\* ------------------------------------------------------- the reader's calls
MaxCursors == 2
MaxAllocFail == 1
MaxNext == MaxRows + 2

\* one entry of xout: the call and its arguments, its result, the row returned
\* (NIL if none), what it logged, good_offset, eof_read and the file position
\* after it, and the position at which a read fell short (-1 if none did)
XEv(op, arg, res, row, says, good, eof, pos, short) ==
    [op |-> op, arg |-> arg, res |-> res, row |-> row, says |-> says,
     good |-> good, eof |-> eof, pos |-> pos, short |-> short]

Calls(op) == {n \in 1..Len(xout) : xout[n].op = op}

\* how many calls of region_alloc failed so far
RECURSIVE AllocFailures(_)
AllocFailures(out) ==
    IF out = <<>> THEN 0
    ELSE Len(SelectSeq(Head(out).says, LAMBDA m : m.say = "failed to read row"))
         + AllocFailures(Tail(out))

\* the fiber whose region the reader allocates in
Reader == 1

\* no transaction is running
NoTxn ==
    /\ index = EmptyIndex /\ refs = NoRefs
    /\ in_txn = [f \in Fibers |-> NIL]
    /\ gc = [f \in Fibers |-> <<>>]
    /\ wal_mode = WAL_NONE
    /\ log = <<>>
    /\ pc = [f \in Fibers |-> "idle"]
    /\ trace = [f \in Fibers |-> <<>>]
    /\ snap = [f \in Fibers |-> [index |-> EmptyIndex, refs |-> NoRefs, log |-> <<>>]]
    /\ stmt = [f \in Fibers |-> NIL]
    /\ hist = [f \in Fibers |-> <<>>]
    /\ ntxn = 0
    /\ aborted = FALSE

txn_vars_but_gc == <<index, refs, in_txn, wal_mode, log, pc, trace, snap, stmt,
                     hist, ntxn, aborted>>

InitXlog ==
    /\ NoTxn
    /\ NoXdir
    /\ file \in Files
    /\ xlog = NIL
    /\ cursor = NIL
    /\ xout = <<>>

\* what xlog_v11_open_stream returns for a stream of the file: the error set,
\* whether fclose was called, and the struct xlog (NIL for NULL)
open_stream_result(bytes, dirtype, file_ok, calloc_ok) ==
    IF ~file_ok THEN [err |-> "ER_UNKNOWN", fclose |-> FALSE, l |-> NIL]
    ELSE IF ~calloc_ok THEN [err |-> "ER_UNKNOWN", fclose |-> TRUE, l |-> NIL]
    ELSE LET meta == xlog_v11_read_meta(bytes, dirtype)
         IN  IF meta.res = -1
             THEN [err |-> "ER_INVALID_XLOG", fclose |-> TRUE, l |-> NIL]
             ELSE [err |-> "ok", fclose |-> FALSE,
                   l |-> [f |-> meta.pos, rows |-> 0, dir |-> dirtype]]

\* xlog_v11_ropen / xlog_v11_open_stream(dir, file, filename), once per file
xlog_v11_open_stream(dirtype, file_ok, calloc_ok) ==
    /\ xlog = NIL
    /\ xout = <<>>
    /\ LET r == open_stream_result(file.bytes, dirtype, file_ok, calloc_ok)
       IN  /\ xlog' = r.l
           /\ xout' = <<XEv("open_stream",
                            [dir |-> dirtype, file |-> file_ok, calloc |-> calloc_ok],
                            r.err, NIL, <<>>, 0, r.fclose,
                            IF r.l = NIL THEN 0 ELSE r.l.f, -1)>>
    /\ UNCHANGED <<file, cursor, gc>>

\* xlog_cursor_v11_open(i, l)
cursor_open_fields(l) ==
    [row_count |-> 0, good_offset |-> l.f, eof_read |-> FALSE]

xlog_cursor_v11_open ==
    /\ xlog # NIL
    /\ cursor = NIL
    /\ Cardinality(Calls("cursor_open")) < MaxCursors
    /\ cursor' = cursor_open_fields(xlog)
    /\ xout' = Append(xout, XEv("cursor_open", NIL, "ok", NIL, <<>>, xlog.f, FALSE,
                                xlog.f, -1))
    /\ UNCHANGED <<file, xlog, gc>>

\* a close that leaves the file where the last read ended
close_seek_stays(l, i) == l.f

\* where xlog_cursor_v11_close leaves the file position
close_seek(l, i) == i.good_offset

\* xlog_cursor_v11_close(i)
xlog_cursor_v11_close ==
    /\ cursor # NIL
    /\ xlog' = [xlog EXCEPT !.rows = @ + cursor.row_count,
                            !.f = close_seek(xlog, cursor)]
    /\ gc' = [gc EXCEPT ![Reader] = <<>>]
    /\ cursor' = NIL
    /\ xout' = Append(xout, XEv("cursor_close", NIL, "ok", NIL, <<>>,
                                cursor.good_offset, cursor.eof_read,
                                close_seek(xlog, cursor), -1))
    /\ UNCHANGED file

\* a cursor that moves on without counting the row
cursor_advance_no_count(i, pos) == [i EXCEPT !.good_offset = pos]

\* what a returned row does to the cursor
cursor_advance(i, pos) ==
    [i EXCEPT !.good_offset = pos, !.row_count = @ + 1]

\* xlog_cursor_v11_next(i, rowlen) with the first nfail region_alloc calls
\* failing.  The caller keeps to assert(i->eof_read == false).
\* region_free_after(gc, 128 * 1024) frees nothing: the rows here are small.
xlog_cursor_v11_next(nfail) ==
    /\ cursor # NIL
    /\ cursor.eof_read = FALSE
    /\ Cardinality(Calls("next")) < MaxNext
    /\ LET r == cursor_read(file.bytes, xlog.f, cursor.good_offset, 0, nfail, <<>>)
       IN  IF r.row # NIL
           THEN /\ cursor' = cursor_advance(cursor, r.pos)
                /\ xlog' = [xlog EXCEPT !.f = r.pos]
                /\ gc' = [gc EXCEPT ![Reader] = Append(@, "row")]
                /\ xout' = Append(xout, XEv("next", NIL, "row", r.row, r.says,
                                            r.pos, FALSE, r.pos, -1))
           ELSE LET e == cursor_eof(file.bytes, r.pos, cursor.good_offset)
                IN  /\ cursor' = [cursor EXCEPT !.good_offset = e.good_offset,
                                                !.eof_read = e.eof_read]
                    /\ xlog' = [xlog EXCEPT !.f = e.pos]
                    /\ gc' = [gc EXCEPT ![Reader] =
                                 IF r.allocs > 0 THEN Append(@, "row") ELSE @]
                    /\ xout' = Append(xout, XEv("next", NIL, "none", NIL,
                                                r.says \o e.says, e.good_offset,
                                                e.eof_read, e.pos, r.pos))
    /\ UNCHANGED file

\* xlog_v11_close(lptr), with the value fclose returns
xlog_v11_close(r) ==
    /\ xlog # NIL
    /\ cursor = NIL
    /\ xlog' = NIL
    /\ xout' = Append(xout, XEv("close", NIL, IF r = -1 THEN "ER_UNKNOWN" ELSE "ok",
                                NIL, <<>>, 0, TRUE, 0, -1))
    /\ UNCHANGED <<file, cursor, gc>>

NextXlog ==
    \/ /\ \E dirtype \in {XLOG, SNAP}, file_ok \in BOOLEAN, calloc_ok \in BOOLEAN :
              xlog_v11_open_stream(dirtype, file_ok, calloc_ok)
       /\ UNCHANGED <<txn_vars_but_gc, xdir_vars>>
    \/ xlog_cursor_v11_open /\ UNCHANGED <<txn_vars_but_gc, xdir_vars>>
    \/ /\ \E nfail \in 0..(MaxAllocFail - AllocFailures(xout)) :
              xlog_cursor_v11_next(nfail)
       /\ UNCHANGED <<txn_vars_but_gc, xdir_vars>>
    \/ xlog_cursor_v11_close /\ UNCHANGED <<txn_vars_but_gc, xdir_vars>>
    \/ /\ \E r \in {0, -1} : xlog_v11_close(r)
       /\ UNCHANGED <<txn_vars_but_gc, xdir_vars>>

SpecXlog == InitXlog /\ [][NextXlog]_vars

\* ------------------------------------------- xlog_cursor_v11_next by steps
\* The same function followed label by label.  cursor.frame is the frame of
\* the call: the label it is at ("return" between calls), the window magic,
\* marker_offset, the position at which the current pass over restart: began
\* to read (-1 before the first), the passes made, the calls made so far and
\* what the last one returned.
NoFrame ==
    [at |-> "return", magic |-> <<>>, marker_offset |-> 0, from |-> -1,
     pass |-> 0, calls |-> 0, res |-> "none"]

WithFrame(i, frame) ==
    [row_count |-> i.row_count, good_offset |-> i.good_offset,
     eof_read |-> i.eof_read, frame |-> frame]

\* an open log with a cursor on it
InitLoop ==
    /\ NoTxn
    /\ NoXdir
    /\ file \in Files
    /\ xout = <<>>
    /\ \E dirtype \in {XLOG, SNAP} :
           LET r == open_stream_result(file.bytes, dirtype, TRUE, TRUE)
           IN  /\ r.l # NIL
               /\ xlog = r.l
               /\ cursor = WithFrame(cursor_open_fields(r.l), NoFrame)

\* entry: marker_offset = 0, assert(i->eof_read == false) kept by the caller
LoopCall ==
    /\ cursor.frame.at = "return"
    /\ cursor.eof_read = FALSE
    /\ cursor.frame.calls < MaxNext
    /\ cursor' = [cursor EXCEPT !.frame =
           [NoFrame EXCEPT !.at = "restart", !.calls = cursor.frame.calls + 1]]
    /\ UNCHANGED <<file, xlog, xout, gc>>

\* restart: the seek past the marker tried before, and the fread of magic
LoopRestart ==
    /\ cursor.frame.at = "restart"
    /\ LET from == restart_pos(xlog.f, cursor.frame.marker_offset)
           m == fread(file.bytes, from, sizeof_magic)
       IN  /\ xlog' = [xlog EXCEPT !.f = m.pos]
           /\ cursor' = [cursor EXCEPT
                  !.frame.from = from,
                  !.frame.pass = @ + 1,
                  !.frame.magic = IF m.n = 1 THEN m.buf ELSE <<>>,
                  !.frame.at = IF m.n = 1 THEN "scan" ELSE "eof"]
    /\ UNCHANGED <<file, xout, gc>>

\* one test of the while loop: the marker is in the window, or fgetc slides
\* the window by a byte, or returns EOF
LoopScan ==
    /\ cursor.frame.at = "scan"
    /\ IF cursor.frame.magic = row_marker_v11
       THEN /\ cursor' = [cursor EXCEPT
                   !.frame.marker_offset = xlog.f - sizeof_magic,
                   !.frame.at = "row"]
            /\ UNCHANGED xlog
       ELSE IF xlog.f >= Len(file.bytes)
       THEN /\ cursor' = [cursor EXCEPT !.frame.at = "eof"]
            /\ UNCHANGED xlog
       ELSE /\ cursor' = [cursor EXCEPT !.frame.magic =
                   Tail(@) \o <<file.bytes[xlog.f + 1]>>]
            /\ xlog' = [xlog EXCEPT !.f = @ + 1]
    /\ UNCHANGED <<file, xout, gc>>

\* row_reader_v11 and the three ways on from it
LoopRow ==
    /\ cursor.frame.at = "row"
    /\ \E alloc_ok \in BOOLEAN :
          LET r == row_reader_v11(file.bytes, xlog.f, alloc_ok)
          IN  /\ xlog' = [xlog EXCEPT !.f = r.pos]
              /\ gc' = [gc EXCEPT ![Reader] = IF r.alloc THEN Append(@, "row") ELSE @]
              /\ cursor' =
                     IF r.row = ROW_EOF
                     THEN [cursor EXCEPT !.frame.at = "eof"]
                     ELSE IF r.row = NULL
                     THEN [cursor EXCEPT !.frame.at = "restart"]
                     ELSE [cursor_advance(cursor, r.pos) EXCEPT
                              !.frame.at = "return", !.frame.res = "row"]
    /\ UNCHANGED <<file, xout>>

\* eof: and the return of no row
LoopEof ==
    /\ cursor.frame.at = "eof"
    /\ LET e == cursor_eof(file.bytes, xlog.f, cursor.good_offset)
       IN  /\ xlog' = [xlog EXCEPT !.f = e.pos]
           /\ cursor' = [cursor EXCEPT !.good_offset = e.good_offset,
                                       !.eof_read = e.eof_read,
                                       !.frame.at = "return",
                                       !.frame.res = "none"]
    /\ UNCHANGED <<file, xout, gc>>

\* the steps of a call in progress
LoopStep ==
    \/ LoopRestart /\ UNCHANGED <<txn_vars_but_gc, xdir_vars>>
    \/ LoopScan /\ UNCHANGED <<txn_vars_but_gc, xdir_vars>>
    \/ LoopRow /\ UNCHANGED <<txn_vars_but_gc, xdir_vars>>
    \/ LoopEof /\ UNCHANGED <<txn_vars_but_gc, xdir_vars>>

NextLoop ==
    \/ LoopCall /\ UNCHANGED <<txn_vars_but_gc, xdir_vars>>
    \/ LoopStep

\* a call that has started runs on: the function does not yield
SpecLoop == InitLoop /\ [][NextLoop]_vars /\ WF_vars(LoopStep)



\* ============================================================ xdir_v11_scan
\* File names are the bytes of dent->d_name.  A signature is an int64_t kept as
\* its sign and its decimal digits, most significant first, without leading
\* zeros, so that every value up to 2^63 is exact.
I64(neg, mag) == [neg |-> neg, mag |-> mag]
LLONG_MAX == I64(FALSE, <<9, 2, 2, 3, 3, 7, 2, 0, 3, 6, 8, 5, 4, 7, 7, 5, 8, 0, 7>>)
LLONG_MIN == I64(TRUE, <<9, 2, 2, 3, 3, 7, 2, 0, 3, 6, 8, 5, 4, 7, 7, 5, 8, 0, 8>>)

ext_xlog == <<46, 120, 108, 111, 103>>
ext_snap == <<46, 115, 110, 97, 112>>

\* dir->filename_ext as xdir_v11_create_ sets it
filename_ext(type) == IF type = SNAP THEN ext_snap ELSE ext_xlog

isspace(c) == c \in {32, 9, 10, 11, 12, 13}
isdigit(c) == c \in 48..57

\* the digits without leading zeros; zero is the single digit 0
RECURSIVE canonical(_)
canonical(mag) ==
    IF Len(mag) > 1 /\ Head(mag) = 0 THEN canonical(Tail(mag)) ELSE mag

\* a < b for two magnitudes
MagLess(a, b) ==
    \/ Len(a) < Len(b)
    \/ /\ Len(a) = Len(b)
       /\ \E i \in 1..Len(a) : a[i] < b[i] /\ \A j \in 1..(i - 1) : a[j] = b[j]

\* a > b for two int64_t
Greater(a, b) ==
    IF a.neg # b.neg THEN b.neg
    ELSE IF a.neg THEN MagLess(a.mag, b.mag)
    ELSE MagLess(b.mag, a.mag)

\* cmp_i64(&a, &b)
cmp_i64(a, b) == IF a = b THEN 0 ELSE IF Greater(a, b) THEN 1 ELSE -1

\* strchr(s, '.'): the offset of the first dot, or -1 for NULL
strchr_dot(s) ==
    LET dots == {i \in 1..Len(s) : s[i] = 46}
    IN  IF dots = {} THEN -1 ELSE Least(dots) - 1

\* the suffix of s from offset off
From(s, off) == SubSeq(s, off + 1, Len(s))

\* strtoll(s, &end, 10): white space, an optional sign, digits; the value
\* clamped to LLONG_MIN..LLONG_MAX and the offset of the first byte not
\* consumed, which is 0 when there is no digit
strtoll(s) ==
    LET nonspace == {i \in 1..Len(s) : ~isspace(s[i])}
        ws == IF nonspace = {} THEN Len(s) ELSE Least(nonspace) - 1
        signed == ws < Len(s) /\ s[ws + 1] \in {43, 45}
        neg == signed /\ s[ws + 1] = 45
        start == IF signed THEN ws + 1 ELSE ws
        nondigit == {i \in (start + 1)..Len(s) : ~isdigit(s[i])}
        stop == IF nondigit = {} THEN Len(s) ELSE Least(nondigit) - 1
        mag == canonical([i \in 1..(stop - start) |-> s[start + i] - 48])
    IN  IF stop = start THEN [val |-> I64(FALSE, <<0>>), end |-> 0]
        ELSE IF mag = <<0>> THEN [val |-> I64(FALSE, <<0>>), end |-> stop]
        ELSE IF ~neg /\ MagLess(LLONG_MAX.mag, mag) THEN [val |-> LLONG_MAX, end |-> stop]
        ELSE IF neg /\ MagLess(LLONG_MIN.mag, mag) THEN [val |-> LLONG_MIN, end |-> stop]
        ELSE [val |-> I64(neg, mag), end |-> stop]

\* a directory entry: d_name, the kind of directory for which the name is well
\* formed (one dot, a decimal signature strictly between LLONG_MIN and
\* LLONG_MAX before it, the extension after it; NULL if for none), and the
\* signature it then names
Dent(d_name, kind, sig) == [d_name |-> d_name, kind |-> kind, sig |-> sig]

\* "00000000000000000001.xlog"
D01 == Dent(<<48, 48, 48, 48, 48, 48, 48, 48, 48, 48, 48, 48, 48, 48, 48, 48, 48, 48, 48, 49, 46, 120, 108, 111, 103>>,
           XLOG, I64(FALSE, <<1>>))
\* "00000000000000000005.xlog"
D02 == Dent(<<48, 48, 48, 48, 48, 48, 48, 48, 48, 48, 48, 48, 48, 48, 48, 48, 48, 48, 48, 53, 46, 120, 108, 111, 103>>,
           XLOG, I64(FALSE, <<5>>))
\* "not-a-log.txt"
D03 == Dent(<<110, 111, 116, 45, 97, 45, 108, 111, 103, 46, 116, 120, 116>>,
           NULL, I64(FALSE, <<0>>))
\* "abc.xlog"
D04 == Dent(<<97, 98, 99, 46, 120, 108, 111, 103>>,
           NULL, I64(FALSE, <<0>>))
\* "."
D05 == Dent(<<46>>,
           NULL, I64(FALSE, <<0>>))
\* ".."
D06 == Dent(<<46, 46>>,
           NULL, I64(FALSE, <<0>>))
\* "10.xlog"
D07 == Dent(<<49, 48, 46, 120, 108, 111, 103>>,
           XLOG, I64(FALSE, <<1, 0>>))
\* "9.xlog"
D08 == Dent(<<57, 46, 120, 108, 111, 103>>,
           XLOG, I64(FALSE, <<9>>))
\* "-3.xlog"
D09 == Dent(<<45, 51, 46, 120, 108, 111, 103>>,
           XLOG, I64(TRUE, <<3>>))
\* "7.snap"
D10 == Dent(<<55, 46, 115, 110, 97, 112>>,
           SNAP, I64(FALSE, <<7>>))
\* "00000000000000000003.snap"
D11 == Dent(<<48, 48, 48, 48, 48, 48, 48, 48, 48, 48, 48, 48, 48, 48, 48, 48, 48, 48, 48, 51, 46, 115, 110, 97, 112>>,
           SNAP, I64(FALSE, <<3>>))
\* ".xlog"
D12 == Dent(<<46, 120, 108, 111, 103>>,
           NULL, I64(FALSE, <<0>>))
\* " 7.xlog"
D13 == Dent(<<32, 55, 46, 120, 108, 111, 103>>,
           NULL, I64(FALSE, <<0>>))
\* "9223372036854775806.xlog"
D14 == Dent(<<57, 50, 50, 51, 51, 55, 50, 48, 51, 54, 56, 53, 52, 55, 55, 53, 56, 48, 54, 46, 120, 108, 111, 103>>,
           XLOG, I64(FALSE, <<9, 2, 2, 3, 3, 7, 2, 0, 3, 6, 8, 5, 4, 7, 7, 5, 8, 0, 6>>))
\* "9223372036854775807.xlog"
D15 == Dent(<<57, 50, 50, 51, 51, 55, 50, 48, 51, 54, 56, 53, 52, 55, 55, 53, 56, 48, 55, 46, 120, 108, 111, 103>>,
           NULL, I64(FALSE, <<0>>))
\* "9223372036854775808.xlog"
D16 == Dent(<<57, 50, 50, 51, 51, 55, 50, 48, 51, 54, 56, 53, 52, 55, 55, 53, 56, 48, 56, 46, 120, 108, 111, 103>>,
           NULL, I64(FALSE, <<0>>))
\* "-9223372036854775808.xlog"
D17 == Dent(<<45, 57, 50, 50, 51, 51, 55, 50, 48, 51, 54, 56, 53, 52, 55, 55, 53, 56, 48, 56, 46, 120, 108, 111, 103>>,
           NULL, I64(FALSE, <<0>>))
\* "12abc.xlog"
D18 == Dent(<<49, 50, 97, 98, 99, 46, 120, 108, 111, 103>>,
           NULL, I64(FALSE, <<0>>))
\* "1.2.xlog"
D19 == Dent(<<49, 46, 50, 46, 120, 108, 111, 103>>,
           NULL, I64(FALSE, <<0>>))
\* "1.xlog.bak"
D20 == Dent(<<49, 46, 120, 108, 111, 103, 46, 98, 97, 107>>,
           NULL, I64(FALSE, <<0>>))
\* "xlog"
D21 == Dent(<<120, 108, 111, 103>>,
           NULL, I64(FALSE, <<0>>))

\* what readdir() returns for the directory, in the order it returns it
Listings ==
    {<<>>,
     <<D05, D06>>,
     <<D02, D03, D04, D01>>,
     <<D05, D06, D07, D09, D10, D08, D11>>,
     <<D12, D01>>,
     <<D13, D08>>,
     <<D15, D16, D17, D14, D07>>,
     <<D18, D19, D20, D21, D10, D02>>}

MaxScans == 2

\* lines 131-147 for one entry: is its signature taken, is a warning logged
scan_entry(d_name, ext) ==
    LET dot == strchr_dot(d_name)
        parsed == strtoll(d_name)
    IN  IF dot = -1 THEN [take |-> FALSE, warn |-> FALSE, signature |-> parsed.val]
        ELSE IF From(d_name, dot) # ext
        THEN [take |-> FALSE, warn |-> FALSE, signature |-> parsed.val]
        ELSE IF dot # parsed.end \/ parsed.val = LLONG_MAX \/ parsed.val = LLONG_MIN
        THEN [take |-> FALSE, warn |-> TRUE, signature |-> parsed.val]
        ELSE [take |-> TRUE, warn |-> FALSE, signature |-> parsed.val]

\* the while loop over readdir(): the signatures array in the order filled
RECURSIVE scan_entries(_, _)
scan_entries(entries, ext) ==
    IF entries = <<>> THEN <<>>
    ELSE LET e == scan_entry(Head(entries).d_name, ext)
         IN  (IF e.take THEN <<e.signature>> ELSE <<>>)
             \o scan_entries(Tail(entries), ext)

\* the names say_warn was called for
scan_warnings(entries, ext) ==
    {entries[i].d_name : i \in {j \in 1..Len(entries) :
                                   scan_entry(entries[j].d_name, ext).warn}}

\* qsort(signatures, s_count, sizeof(*signatures), cmp_i64)
RECURSIVE sort_insert(_, _)
sort_insert(x, sorted) ==
    IF sorted = <<>> THEN <<x>>
    ELSE IF cmp_i64(x, Head(sorted)) <= 0 THEN <<x>> \o sorted
    ELSE <<Head(sorted)>> \o sort_insert(x, Tail(sorted))
RECURSIVE qsort(_)
qsort(signatures) ==
    IF signatures = <<>> THEN <<>>
    ELSE sort_insert(Head(signatures), qsort(Tail(signatures)))

\* xdir_v11_create(dir, dirname, type, server_uuid): the zeroed struct
\* xdir_v11 with its type and extension; sig is <<>> with has_sig false for a
\* NULL array
xdir_v11_create(type) ==
    /\ dir = NIL
    /\ dir' = [type |-> type, filename_ext |-> filename_ext(type), sig |-> <<>>,
               has_sig |-> FALSE, sig_count |-> 0, freed |-> FALSE]
    /\ UNCHANGED <<dents, scans, aborted>>

\* xdir_v11_destroy(dir)
xdir_v11_destroy ==
    /\ dir # NIL /\ ~dir.freed /\ ~aborted
    /\ dir.has_sig
    /\ dir' = [dir EXCEPT !.sig_count = 0, !.sig = <<>>, !.has_sig = FALSE]
    /\ UNCHANGED <<dents, scans, aborted>>

\* one entry of scans: whether the call returned and what, the listing
\* scanned, the list the directory held before (had_list: a non-NULL array)
\* and the list it holds after, whether the old array was freed and the
\* directory stream closed, and the names warned about
ScanEv(returned, res, stored, freed_prev, closedir) ==
    [returned |-> returned, res |-> res, dents |-> dents, type |-> dir.type,
     prev |-> dir.sig, had_list |-> dir.has_sig, stored |-> stored,
     freed_prev |-> freed_prev, closedir |-> closedir,
     warned |-> scan_warnings(dents, dir.filename_ext)]

\* lines 166-169: what the end of a successful scan stores in the directory
scan_install(d, signatures) ==
    [d EXCEPT !.sig = signatures, !.has_sig = signatures # <<>>,
              !.sig_count = Len(signatures), !.freed = d.has_sig]

\* xdir_v11_scan(dir) with the outcomes of opendir and of realloc.  There are
\* fewer than 16 entries, so realloc is called once, for the first signature.
\* With a list already stored, line 167 frees the struct xdir_v11 itself:
\* free() aborts the process on a pointer it did not hand out, or the two
\* stores that follow land in freed memory.
xdir_v11_scan(opendir_ok, realloc_ok) ==
    /\ dir # NIL /\ ~dir.freed /\ ~aborted
    /\ Len(scans) < MaxScans
    /\ LET signatures == scan_entries(dents, dir.filename_ext)
       IN  IF ~opendir_ok
           THEN /\ scans' = Append(scans, ScanEv(TRUE, -1, dir.sig, FALSE, FALSE))
                /\ UNCHANGED <<dir, aborted>>
           ELSE IF signatures # <<>> /\ ~realloc_ok
           THEN /\ scans' = Append(scans, ScanEv(TRUE, -1, dir.sig, FALSE, TRUE))
                /\ UNCHANGED <<dir, aborted>>
           ELSE \/ /\ dir' = scan_install(dir, qsort(signatures))
                   /\ scans' = Append(scans, ScanEv(TRUE, 0, qsort(signatures),
                                                    FALSE, FALSE))
                   /\ UNCHANGED aborted
                \/ /\ dir.has_sig
                   /\ dir' = [dir EXCEPT !.freed = TRUE]
                   /\ scans' = Append(scans, ScanEv(FALSE, 0, dir.sig, FALSE, FALSE))
                   /\ aborted' = TRUE
    /\ UNCHANGED dents

\* files appear in and disappear from the directory
DirChanges ==
    /\ dir # NIL /\ ~dir.freed /\ ~aborted
    /\ scans # <<>>
    /\ \E listing \in Listings \ {dents} : dents' = listing
    /\ UNCHANGED <<dir, scans, aborted>>

txn_vars_but_aborted == <<index, refs, in_txn, gc, wal_mode, log, pc, trace, snap,
                         stmt, hist, ntxn>>

InitXdir ==
    /\ NoTxn
    /\ NoXlog
    /\ dir = NIL
    /\ dents \in Listings
    /\ scans = <<>>

NextXdir ==
    \/ /\ \E type \in {XLOG, SNAP} : xdir_v11_create(type)
       /\ UNCHANGED <<txn_vars_but_aborted, xlog_vars>>
    \/ /\ \E opendir_ok \in BOOLEAN, realloc_ok \in BOOLEAN :
              xdir_v11_scan(opendir_ok, realloc_ok)
       /\ UNCHANGED <<txn_vars_but_aborted, xlog_vars>>
    \/ xdir_v11_destroy /\ UNCHANGED <<txn_vars_but_aborted, xlog_vars>>
    \/ DirChanges /\ UNCHANGED <<txn_vars_but_aborted, xlog_vars>>

SpecXdir == InitXdir /\ [][NextXdir]_vars


\* ------------------------------------------------------------------ claims
\* the replace() of f's transaction went through and left a tuple in the txn
Changed(f) ==
    /\ stmt[f] # NIL
    /\ stmt[f].err = "ok"
    /\ stmt[f].displaced # NULL \/ stmt[f].new # NULL

\* f's transaction called replace(), whether it went through or raised
Replaced(f) == "replace" \in Events(f) \/ "replace_raise" \in Events(f)

\* C1: after begin(), one replace() and rollback(), with no commit() in
\* between, the engine holds what it held at begin() and the fiber's
\* current_txn slot is null.
C1_RollbackRestores ==
    \A f \in Fibers :
        (Replaced(f) /\ "rollback" \in Events(f) /\ "commit" \notin Events(f))
            => index = snap[f].index /\ in_txn[f] = NIL

\* a replace() that installed a new tuple over a stored one was rolled back
C1_Witness ==
    \E f \in Fibers :
        /\ Changed(f)
        /\ stmt[f].new # NULL /\ stmt[f].displaced # NULL
        /\ "rollback" \in Events(f) /\ "commit" \notin Events(f)
        /\ index = snap[f].index

\* C2: when wal_write reports failure inside commit(), commit raises with no
\* on_commit trigger run, no tuple handed to the port and the transaction
\* still in current_txn; once rollback() has then run, the engine holds what
\* it held at begin() and current_txn is null.
C2_FailedCommit ==
    \A f \in Fibers :
        "wal_err" \in Events(f) =>
            /\ "raise" \in Events(f)
            /\ "on_commit" \notin Events(f)
            /\ "port_add_tuple" \notin Events(f)
            /\ "finish" \notin Events(f)
            /\ "rollback" \notin Events(f) => in_txn[f] # NIL /\ pc[f] = "raised"
            /\ "rollback" \in Events(f) =>
                   index = snap[f].index /\ in_txn[f] = NIL

\* a commit whose log write failed was rolled back, undoing a change
C2_Witness ==
    \E f \in Fibers :
        /\ Changed(f)
        /\ "wal_err" \in Events(f)
        /\ "undo" \in Events(f)
        /\ index = snap[f].index /\ in_txn[f] = NIL

\* the row txn_add_redo left in f's transaction was not null
HasRow(f) ==
    \E i \in 1..Len(trace[f]) :
        /\ trace[f][i].e = "add_redo" /\ trace[f][i].t = "row"
        /\ \A j \in (i + 1)..Len(trace[f]) : trace[f][j].e # "add_redo"

\* f's transaction changed a tuple in a non-temporary space, has a row, and
\* the log mode is not NONE
Logged(f) ==
    /\ Changed(f)
    /\ ~space_is_temporary(stmt[f].space)
    /\ HasRow(f)
    /\ wal_mode # WAL_NONE

\* in f's trace, wal_write was called and returned success before 'name'
AfterWalOk(f, name) ==
    /\ 0 < Pos(f, "wal_write")
    /\ Pos(f, "wal_write") < Pos(f, "wal_ok")
    /\ Pos(f, "wal_ok") < Pos(f, name)

\* C3: in commit() of a transaction that changed a tuple in a non-temporary
\* space, with a row and a log mode other than NONE, wal_write is called, and
\* it has returned success before an on_commit trigger runs, before the tuple
\* goes to the port and before txn_finish clears current_txn.
C3_WalBeforeTriggers ==
    \A f \in Fibers :
        (Logged(f) /\ "commit" \in Events(f)) =>
            /\ "wal_write" \in Events(f)
            /\ \A name \in {"on_commit", "port_add_tuple", "finish"} :
                   name \in Events(f) => AfterWalOk(f, name)

\* a logged transaction committed: triggers ran and the tuple was delivered
C3_Witness ==
    \E f \in Fibers :
        /\ Logged(f)
        /\ "on_commit" \in Events(f)
        /\ "port_add_tuple" \in Events(f)
        /\ in_txn[f] = NIL


\* the last entry of a trace
LastOf(tr) == IF tr = <<>> THEN "none" ELSE tr[Len(tr)].e

\* the struct txn objects in f's region
LiveTxns(region) == Cardinality({i \in 1..Len(region) : region[i] = "txn"})

\* this step is a call of begin() by f with a transaction in current_txn
BeginWhileActive(f) ==
    /\ in_txn[f] # NIL
    /\ trace'[f] # trace[f]
    /\ LastOf(trace'[f]) \in {"begin", "begin_abort"}

\* C4: begin() called while current_txn is non-null fails with
\* TxnAlreadyActive and leaves the live transaction installed and unchanged,
\* so a fiber never has more than one live struct txn.
C4_BeginFailsWhenActive ==
    [][\A f \in Fibers :
          BeginWhileActive(f) =>
              /\ ~aborted'
              /\ LastOf(trace'[f]) = "TxnAlreadyActive"
              /\ in_txn'[f] = in_txn[f]
              /\ LiveTxns(gc'[f]) <= 1]_vars

\* f has just committed replace(s, old, null) right after committing
\* replace(s, null, old)
InsertThenDelete(f) ==
    /\ Len(hist[f]) = 2
    /\ pc[f] = "idle"
    /\ "finish" \in Events(f)
    /\ hist[f][1].old = NULL /\ hist[f][1].new # NULL
    /\ hist[f][2].space = hist[f][1].space
    /\ hist[f][2].old = hist[f][1].new /\ hist[f][2].new = NULL

\* C5 as stated: begin(); replace(s, null, t); commit() followed by begin();
\* replace(s, t, null); commit() leaves the engine as it was before the first
\* begin(), for every tuple t and space s.
C5_InsertDeleteRestores ==
    \A f \in Fibers : InsertThenDelete(f) => index = hist[f][1].index

\* C5 amended: begin(); replace(s, null, t); commit() followed by begin();
\* replace(s, t, null); commit() leaves the engine as it was before the first
\* begin(), provided the first replace() displaced no tuple (s held no tuple
\* with t's key).
C5_InsertDeleteRestoresIfNew ==
    \A f \in Fibers :
        (InsertThenDelete(f) /\ hist[f][1].displaced = NULL)
            => index = hist[f][1].index

\* an insert that displaced nothing and the delete of the same tuple committed
C5_Witness ==
    \E f \in Fibers :
        /\ InsertThenDelete(f)
        /\ hist[f][1].displaced = NULL
        /\ hist[f][2].displaced = hist[f][1].new
        /\ index = hist[f][1].index

\* the tuple a commit of f's transaction shows: new_tuple, else old_tuple
Visible(f) ==
    IF ~Changed(f) THEN NULL
    ELSE IF stmt[f].new # NULL THEN stmt[f].new ELSE stmt[f].displaced

\* the tuples handed to port_add_tuple in f's transaction
Sent(f) ==
    {trace[f][i].t : i \in {j \in 1..Len(trace[f]) :
                               trace[f][j].e = "port_add_tuple"}}

\* C6: port_add_tuple is called exactly once by a successful commit() of a
\* transaction that has a tuple, with new_tuple if there is one and else
\* old_tuple; it is called neither by a commit that fails nor by rollback().
C6_OneTuplePerCommit ==
    \A f \in Fibers :
        IF "finish" \in Events(f)
        THEN IF Visible(f) = NULL
             THEN Count(f, "port_add_tuple") = 0
             ELSE Count(f, "port_add_tuple") = 1 /\ Sent(f) = {Visible(f)}
        ELSE Count(f, "port_add_tuple") = 0

\* a commit that replaced a stored tuple handed the new one to the port
C6_Witness ==
    \E f \in Fibers :
        /\ "finish" \in Events(f)
        /\ Changed(f)
        /\ stmt[f].new # NULL /\ stmt[f].displaced # NULL
        /\ Sent(f) = {stmt[f].new}

\* C7: commit() of a transaction whose replace() went to a temporary space
\* does not call wal_write and leaves the log as it was, while the on_commit
\* triggers run and the engine keeps the new tuple.
C7_TemporarySkipsLog ==
    \A f \in Fibers :
        (Changed(f) /\ space_is_temporary(stmt[f].space)
                    /\ "commit" \in Events(f)) =>
            /\ "wal_write" \notin Events(f)
            /\ log = snap[f].log
            /\ "on_commit" \in Events(f)
            /\ "finish" \in Events(f)
            /\ stmt[f].new # NULL =>
                   index[stmt[f].space][Key(stmt[f].new)] = stmt[f].new

\* an insert into the temporary space committed in a mode that writes the log
C7_Witness ==
    \E f \in Fibers :
        /\ Changed(f) /\ space_is_temporary(stmt[f].space)
        /\ stmt[f].new # NULL
        /\ wal_mode # WAL_NONE
        /\ "on_commit" \in Events(f)
        /\ index[stmt[f].space][Key(stmt[f].new)] = stmt[f].new

\* C8 as stated: when the log mode is NONE, commit() does not call wal_write,
\* whatever tuples were changed.
C8_NoneSkipsWalWrite ==
    \A f \in Fibers : wal_mode = WAL_NONE => "wal_write" \notin Events(f)

\* C8 amended: when the log mode is NONE, commit() of a transaction that
\* changed a tuple in a non-temporary space still calls wal_write, once, with
\* txn.row, which add_redo left as the request's header (null if it had
\* none); txn_commit does not test the mode, the call cannot fail and nothing
\* is appended to the log.
C8_NoneStillCallsWalWrite ==
    \A f \in Fibers :
        wal_mode = WAL_NONE =>
            /\ "commit" \in Events(f) =>
                   /\ Count(f, "wal_write") =
                          (IF Changed(f) /\ ~space_is_temporary(stmt[f].space)
                           THEN 1 ELSE 0)
                   /\ "commit_abort" \notin Events(f)
            /\ "wal_err" \notin Events(f)
            /\ log = <<>>
            /\ in_txn[f] # NIL =>
                   in_txn[f].row = NIL \/ in_txn[f].row.body = "header"

\* under NONE a transaction with no row went through wal_write and committed
C8_Witness ==
    \E f \in Fibers :
        /\ wal_mode = WAL_NONE
        /\ Changed(f)
        /\ "add_redo" \in Events(f) /\ ~HasRow(f)
        /\ Pos(f, "wal_write") < Pos(f, "on_commit")
        /\ "wal_ok" \in Events(f)
        /\ "finish" \in Events(f)
        /\ log = <<>>

\* C9 as stated: the reference taken on new_tuple by replace() is released by
\* the time the transaction ends, through commit()/finish() as through
\* rollback().
C9_NewTupleReleased ==
    \A f \in Fibers :
        (Changed(f) /\ stmt[f].new # NULL
                    /\ ("finish" \in Events(f) \/ "rollback" \in Events(f)))
            => refs[stmt[f].new] = snap[f].refs[stmt[f].new]

\* the reference counts a commit of f's transaction leaves
RefsAfterCommit(f) ==
    [t \in Tuples |->
        snap[f].refs[t] + (IF t = stmt[f].new THEN 1 ELSE 0)
                        - (IF t = stmt[f].displaced THEN 1 ELSE 0)]

\* C9 amended: rollback() releases the reference replace() took on new_tuple,
\* so that every reference count is what it was before the transaction;
\* commit()/finish() keeps that reference (the tuple stays in the engine) and
\* releases one reference on old_tuple, the displaced tuple.
C9_RefsOnTermination ==
    \A f \in Fibers :
        /\ (Replaced(f) /\ "rollback" \in Events(f)) => refs = snap[f].refs
        /\ (Changed(f) /\ "finish" \in Events(f)) => refs = RefsAfterCommit(f)

\* a commit kept new_tuple's reference and dropped the displaced tuple's
C9_Witness ==
    \E f \in Fibers :
        /\ Changed(f) /\ "finish" \in Events(f)
        /\ stmt[f].new # NULL /\ stmt[f].displaced # NULL
        /\ refs[stmt[f].new] = snap[f].refs[stmt[f].new] + 1
        /\ refs[stmt[f].displaced] = snap[f].refs[stmt[f].displaced] - 1

\* C10 as stated, for the transactions that called add_redo(): on commit
\* followed by finish, on rollback and on the error exit of commit the region
\* is released and current_txn is cleared.
C10_EveryExitReleases ==
    \A f \in Fibers :
        ("add_redo" \in Events(f) /\
            ("finish" \in Events(f)
                \/ "rollback" \in Events(f)
                \/ "raise" \in Events(f)))
            => gc[f] = <<>> /\ in_txn[f] = NIL

\* C10 amended: on commit followed by finish and on rollback the region is
\* released and current_txn is cleared; the error exit of commit does
\* neither: the transaction stays in current_txn and in the region until the
\* caller calls rollback().
C10_FinishAndRollbackRelease ==
    \A f \in Fibers :
        /\ ("finish" \in Events(f)
               \/ ("rollback" \in Events(f) /\ "begin" \in Events(f)))
            => gc[f] = <<>> /\ in_txn[f] = NIL
        /\ ("raise" \in Events(f) /\ "rollback" \notin Events(f))
            => LiveTxns(gc[f]) >= 1 /\ in_txn[f] # NIL

\* a commit raised and the rollback that followed released the region
C10_Witness ==
    \E f \in Fibers :
        /\ "raise" \in Events(f) /\ "rollback" \in Events(f)
        /\ gc[f] = <<>> /\ in_txn[f] = NIL


\* ------------------------------------------------------ claims on the reader
\* the calls of next() so far, and those that returned a row
NextCalls == SelectSeq(xout, LAMBDA e : e.op = "next")
Returned == SelectSeq(xout, LAMBDA e : e.op = "next" /\ e.row # NIL)

\* did a region_alloc fail in some call
AllocFailed == AllocFailures(xout) > 0

\* the bytes of the file a returned row covers, marker included
Frame(e) == [off |-> e.row.off, end |-> e.row.off + sizeof_magic + e.row.len]

\* the last call was a next() that returned no row
NoMoreRows ==
    xout # <<>> /\ xout[Len(xout)].op = "next" /\ xout[Len(xout)].res = "none"

\* C11: over a file with a valid header, N well framed rows and no damage,
\* the next() calls on a cursor return the N rows in the order they were
\* written, then no row; then row_count is N, and eof_read is true exactly if
\* the writer sealed the file.  (The calls of region_alloc succeed.)
C11_RoundTrip ==
    (file.damage.kind = "none" /\ ~AllocFailed) =>
        /\ Len(Returned) <= Len(file.rows)
        /\ \A n \in 1..Len(Returned) : Frame(Returned[n]) = file.rows[n]
        /\ (NoMoreRows /\ Cardinality(Calls("cursor_open")) = 1) =>
               /\ Len(Returned) = Len(file.rows)
               /\ cursor.row_count = Len(file.rows)
               /\ cursor.eof_read = file.sealed

C11_Witness ==
    /\ file.damage.kind = "none" /\ ~AllocFailed
    /\ Len(file.rows) >= 2 /\ file.sealed
    /\ NoMoreRows
    /\ Cardinality(Calls("cursor_open")) = 1
    /\ cursor.row_count = Len(file.rows) /\ cursor.eof_read

\* C12 as stated: next() returns a row only if both of its checksums match;
\* with the body of one row damaged the cursor returns the rows around it only,
\* and row_count counts those (1 and 3 of three rows, row_count 2).
C12_OnlyValidRows ==
    /\ \A n \in 1..Len(Returned) : crc_ok(file.bytes, Returned[n].row.off)
    /\ (/\ file.damage.kind = "body" /\ ~AllocFailed
        /\ NoMoreRows /\ Cardinality(Calls("cursor_open")) = 1) =>
           cursor.row_count = Len(file.rows)

\* the next() call at xout[n] follows, on the same file, the return of the
\* intact row before a run of garbage that lies between two intact rows
AfterRowBeforeGap(n) ==
    /\ file.damage.kind = "gap"
    /\ file.damage.at >= 1 /\ file.damage.at < Len(file.rows)
    /\ n > 1 /\ xout[n].op = "next"
    /\ AllocFailures(<<xout[n]>>) = 0
    /\ \E m \in 1..(n - 1) :
          /\ xout[m].op = "next" /\ xout[m].row # NIL
          /\ Frame(xout[m]) = file.rows[file.damage.at]
          /\ \A k \in (m + 1)..(n - 1) : xout[k].op # "next"

\* C13 as stated: with a run of d bytes of garbage between two valid rows, the
\* next() call after the first row reports exactly d skipped bytes and returns
\* the row after the run.
C13_SkippedBytes ==
    \A n \in 1..Len(xout) :
        AfterRowBeforeGap(n) =>
            /\ xout[n].says = <<Say("skipped", file.damage.d)>>
            /\ xout[n].row # NIL
            /\ Frame(xout[n]) = file.rows[file.damage.at + 1]

\* the entries of xout made while a cursor was open
CursorCalls == {n \in 1..Len(xout) : xout[n].op \in {"cursor_open", "next", "cursor_close"}}

\* an EOF marker was read, and good_offset is the position just past it
PastEofMarker(good) ==
    \E n \in 1..Len(xout) : xout[n].op = "next" /\ xout[n].eof /\ xout[n].good = good

\* C14 as stated: good_offset is the end of the header, the end of the row
\* returned last or the position past a read EOF marker; it never decreases; a
\* next() that returns no row and reads no EOF marker leaves it unchanged; and
\* after two valid rows followed by garbage without an EOF marker the third
\* next() returns no row, with eof_read false and good_offset at the end of
\* the second row.
C14_GoodOffset ==
    /\ cursor # NIL =>
           \/ cursor.good_offset = xout[1].pos
           \/ Returned # <<>> /\ cursor.good_offset = Frame(Returned[Len(Returned)]).end
           \/ PastEofMarker(cursor.good_offset)
    /\ \A m \in CursorCalls, n \in CursorCalls : m < n => xout[m].good <= xout[n].good
    /\ \A n \in 2..Len(xout) :
           (xout[n].op = "next" /\ xout[n].res = "none" /\ ~xout[n].eof) =>
               xout[n].good = xout[n - 1].good
    /\ (/\ file.damage.kind = "gap" /\ ~file.sealed
        /\ Len(file.rows) = 2 /\ file.damage.at = 2
        /\ ~AllocFailed /\ Len(NextCalls) >= 3) =>
           /\ NextCalls[3].res = "none"
           /\ ~NextCalls[3].eof
           /\ NextCalls[3].good = file.rows[2].end

\* C15: xlog_cursor_v11_close leaves the file position at the cursor's
\* good_offset whatever the last next() did; the cursor opened after it starts
\* there, and over an undamaged file the cursors together return every row
\* once, in order: none twice, none skipped.
C15_CloseSeeksBack ==
    /\ \A n \in 2..Len(xout) :
           xout[n].op = "cursor_close" =>
               /\ xout[n].pos = xout[n].good
               /\ xout[n].good = xout[n - 1].good
    /\ cursor = NIL /\ xlog # NIL /\ Calls("cursor_close") # {} =>
           xlog.f = xout[Len(xout)].good
    /\ \A n \in 2..Len(xout) :
           (xout[n].op = "cursor_open" /\ xout[n - 1].op = "cursor_close") =>
               xout[n].good = xout[n - 1].good
    /\ (file.damage.kind = "none" /\ ~AllocFailed) =>
           /\ Len(Returned) <= Len(file.rows)
           /\ \A n \in 1..Len(Returned) : Frame(Returned[n]) = file.rows[n]
           /\ NoMoreRows => Len(Returned) = Len(file.rows)

\* the first cursor was closed after it returned a row, and the cursor opened
\* after it returned the rest of the rows
C15_Witness ==
    /\ file.damage.kind = "none" /\ ~AllocFailed /\ ~file.sealed
    /\ Len(file.rows) >= 2
    /\ Cardinality(Calls("cursor_open")) = 2
    /\ \E n \in Calls("cursor_close") :
          /\ xout[n - 1].op = "next" /\ xout[n - 1].row # NIL
          /\ xout[n - 1].good < Len(file.bytes)
          /\ \E k \in (n + 2)..Len(xout) : xout[k].op = "next" /\ xout[k].row # NIL
    /\ NoMoreRows
    /\ Len(Returned) = Len(file.rows)

\* the open was given a stream and got its struct xlog
OpenTried ==
    xout # <<>> /\ xout[1].op = "open_stream" /\ xout[1].arg.file /\ xout[1].arg.calloc

\* C16 as stated: the open succeeds only if the first line is the filetype of
\* the directory's kind, the second line is 0.11 and a blank line ends the
\* header before the end of the file; in every other case it fails with
\* ER_INVALID_XLOG, returns no handle and closes the file.
C16_OpenChecksHeader ==
    (OpenTried /\ ~(file.wellformed /\ file.type = xout[1].arg.dir)) =>
        /\ xout[1].res = "ER_INVALID_XLOG"
        /\ xout[1].eof
        /\ xlog = NIL

\* the position at which the read of the next() call at xout[n] fell short is
\* just past the four bytes at the good_offset it started with
ShortPastMagic(n) == xout[n].short = xout[n - 1].good + sizeof_magic

\* the four bytes at the good_offset the call at xout[n] started with
MagicAtGood(n) ==
    SubSeq(file.bytes, xout[n - 1].good + 1, xout[n - 1].good + sizeof_magic)

Said(n, text) == \E k \in 1..Len(xout[n].says) : xout[n].says[k].say = text

\* C20: next() sets eof_read only when the read fell short at good_offset + 4
\* and the four bytes at good_offset are the EOF marker, and then good_offset
\* moves past the marker; a row marker there is no error, any other value is
\* reported as a corrupt EOF marker; every call that falls short returns no row.
C20_EofDisposition ==
    \A n \in 2..Len(xout) :
        (xout[n].op = "next" /\ xout[n].short # -1) =>
            /\ xout[n].res = "none" /\ xout[n].row = NIL
            /\ xout[n].eof <=> (ShortPastMagic(n) /\ MagicAtGood(n) = eof_marker_v11)
            /\ xout[n].good =
                   xout[n - 1].good + (IF xout[n].eof THEN sizeof_magic ELSE 0)
            /\ Said(n, "eof marker is corrupt") <=>
                   (ShortPastMagic(n) /\ MagicAtGood(n) # eof_marker_v11
                                      /\ MagicAtGood(n) # row_marker_v11)
            /\ ~Said(n, "can't read eof marker")

\* a cursor read two rows and then the EOF marker of a sealed file
C20_Witness ==
    /\ Len(xout) > 2 /\ Len(Returned) >= 2
    /\ xout[Len(xout)].op = "next"
    /\ xout[Len(xout)].eof
    /\ ShortPastMagic(Len(xout))
    /\ cursor.eof_read

\* ------------------------------------------------------- claims on the scan
\* the signatures of the entries of a listing that are well formed for the kind
RECURSIVE WellFormedSigs(_, _)
WellFormedSigs(entries, kind) ==
    IF entries = <<>> THEN <<>>
    ELSE (IF Head(entries).kind = kind THEN <<Head(entries).sig>> ELSE <<>>)
         \o WellFormedSigs(Tail(entries), kind)

Occurrences(seq, x) == Cardinality({i \in 1..Len(seq) : seq[i] = x})

\* the same values, each as often
SameBag(a, b) ==
    /\ Len(a) = Len(b)
    /\ \A i \in 1..Len(a) : Occurrences(a, a[i]) = Occurrences(b, a[i])

Ascending(seq) == \A i \in 1..(Len(seq) - 1) : ~Greater(seq[i], seq[i + 1])

\* C17 as stated: a successful scan stores exactly the signatures of the well
\* formed entries, ascending; a malformed name, one with an empty or a
\* non-decimal signature part included, contributes no signature.
C17_ScanStoresWellFormed ==
    \A n \in 1..Len(scans) :
        (scans[n].returned /\ scans[n].res = 0) =>
            /\ Ascending(scans[n].stored)
            /\ SameBag(scans[n].stored, WellFormedSigs(scans[n].dents, scans[n].type))

\* C18 as stated: after a scan of a directory that already holds a list the
\* directory object is still valid and holds the complete sorted list of the
\* new scan, the previous array freed, or exactly the previous list if the
\* scan failed; a scan never frees the directory object.
C18_RescanAtomic ==
    /\ dir # NIL => ~dir.freed
    /\ \A n \in 1..Len(scans) :
           scans[n].had_list =>
               /\ scans[n].returned
               /\ scans[n].res = 0 =>
                      /\ scans[n].freed_prev
                      /\ Ascending(scans[n].stored)
                      /\ SameBag(scans[n].stored,
                                 scan_entries(scans[n].dents, filename_ext(scans[n].type)))
               /\ scans[n].res = -1 => scans[n].stored = scans[n].prev

\* ------------------------------------------------ claims on the txn fields
\* f's transaction is live: begun and not yet finished or rolled back
Live(f) == in_txn[f] # NIL

\* the replace() of f's live transaction returned without raising
ReplaceDone(f) == stmt[f] # NIL /\ stmt[f].err = "ok"

HasTuple(f) == in_txn[f].old_tuple # NULL \/ in_txn[f].new_tuple # NULL

RowIsAsStated(row, request, mode) ==
    IF request.header # NIL THEN row = request.header
    ELSE IF mode = WAL_NONE THEN row = NIL
    ELSE row # NIL /\ row.type = request.type

\* txn_commit of f's transaction is at, or died on, its log step
AtLogStep(f) == pc[f] = "wal" \/ "commit_abort" \in Events(f)

\* C22: when commit() reaches the log step of a transaction on which
\* add_redo() was called, 'log mode is NONE or txn.row is non-null' holds; and
\* add_redo leaves txn.row null only for a request without a header under
\* mode NONE, else it is the supplied header or a row of the request's type.
C22_RowAtLogStep ==
    /\ [](\A f \in Fibers :
             (AtLogStep(f) /\ "add_redo" \in Events(f)) =>
                 /\ commit_assert(in_txn[f], wal_mode)
                 /\ "commit_abort" \notin Events(f))
    /\ [][\A f \in Fibers, request \in Requests :
             txn_add_redo(f, request) =>
                 RowIsAsStated(in_txn[f].row', request, wal_mode)]_vars

\* commit() is suspended in wal_write with the log active, on a row that
\* add_redo built for a request without a header
C22_Witness ==
    \E f \in Fibers :
        /\ pc[f] = "wal"
        /\ wal_mode # WAL_NONE
        /\ "add_redo" \in Events(f)
        /\ in_txn[f].row # NIL
        /\ in_txn[f].row.body = "encoded"

\* ------------------------------------------------- claims on two fibers
\* this step is the txn_rollback of f's live transaction, gone through
RollsBack(f) ==
    /\ in_txn[f] # NIL
    /\ in_txn'[f] = NIL
    /\ "rollback" \in {trace'[f][i].e : i \in 1..Len(trace'[f])}

\* the cells of the engine this step changes
ChangedCells == {c \in Spaces \X Keys : index'[c[1]][c[2]] # index[c[1]][c[2]]}

\* the tuple g's live transaction installed and the engine still holds
InstalledBy(g, c) ==
    /\ in_txn[g] # NIL
    /\ in_txn[g].new_tuple # NULL
    /\ in_txn[g].space = c[1]
    /\ index[c[1]][c[2]] = in_txn[g].new_tuple

\* C21 as stated: with two fibers interleaving at the log write of commit(),
\* a rollback removes from the engine only the tuple its transaction
\* installed and reinstates only the tuple it displaced; it never removes or
\* overwrites a tuple installed by the other fiber's transaction.
C21_RollbackTouchesOwnOnly ==
    [][\A f \in Fibers :
          RollsBack(f) =>
              \A c \in ChangedCells :
                  /\ index[c[1]][c[2]] \in {NULL, in_txn[f].new_tuple}
                  /\ index'[c[1]][c[2]] \in {NULL, in_txn[f].old_tuple}
                  /\ \A g \in Fibers \ {f} : ~InstalledBy(g, c)]_vars

\* --------------------------------------- claims on several replaces
\* f's transaction was rolled back, the engine call gone through, after n or
\* more replace() calls that returned without raising
RolledBackAfter(f, n) ==
    /\ Count(f, "replace") >= n
    /\ "undo" \in Events(f)
    /\ "commit" \notin Events(f)
    /\ in_txn[f] = NIL

\* C23 as stated: a transaction that performs two or more replace() calls and
\* is rolled back leaves the engine as it was before begin(), and the
\* reference taken on the new_tuple of every one of those calls is released.
C23_RollbackRestoresAll ==
    \A f \in Fibers :
        RolledBackAfter(f, 2) => index = snap[f].index /\ refs = snap[f].refs

\* ------------------------------------------ claims on the loop of next()
\* C24: every call of next() on a file of finite length returns, a row or no
\* more rows: a step of the marker scan moves the read position forward by
\* one byte, and every pass over restart: begins to read strictly beyond the
\* place where the pass before it began.
C24_NextTerminates ==
    /\ (cursor.frame.at # "return") ~> (cursor.frame.at = "return")
    /\ [][/\ (cursor.frame.at = "scan" /\ cursor.frame.at' = "scan")
               => xlog.f' = xlog.f + 1
          /\ (cursor.frame.at = "restart" /\ cursor.frame.from >= 0)
               => cursor.frame.from' > cursor.frame.from
          /\ cursor.frame.at = "restart" => xlog.f' <= Len(file.bytes)]_vars

\* a call that went over restart: twice, skipped bytes on its way and returned
C24_Witness ==
    /\ cursor.frame.at = "return"
    /\ cursor.frame.pass >= 2
    /\ cursor.frame.from > cursor.good_offset \/ cursor.frame.res = "row"

=============================================================================
